---- MODULE Spec2Model ----
(***************************************************************************)
(* Storage-engine core of bustub: extendible hash table, LRU-K replacer,   *)
(* buffer pool manager and B+Tree index, modelled from the C++ sources.    *)
(***************************************************************************)
EXTENDS Integers, Sequences, FiniteSets, TLC

(***************************************************************************)
(* Bounds of the model                                                     *)
(***************************************************************************)
\* pool_size_: number of frames of the buffer pool
PoolSize == 2
\* k_ of the LRU-K replacer
ReplacerK == 2
\* bucket_size_ of the page table
BucketSize == 1
\* page ids handed out by AllocatePage are 0 .. MaxPageId-1
MaxPageId == 4
\* cap on current_timestamp_ of the replacer
MaxTime == 5
\* page contents written by a client are 1 .. MaxData (0 = zeroed memory)
MaxData == 1
\* the clients write the bytes of pages 0 .. MaxDataPage only
MaxDataPage == 0
\* a replacer on its own: num_frames, the largest k, cap on current_timestamp_
ReplacerFrames == 3
MaxK == 3
MaxAccesses == 5
\* a hash table on its own: the largest bucket_size, keys 0 .. MaxHashKey,
\* values 1 .. MaxHashValue
MaxBucketSize == 2
MaxHashKey == 3
MaxHashValue == 2

INVALID_PAGE_ID == 0 - 1

Frames == 0 .. (PoolSize - 1)
PageIds == 0 .. (MaxPageId - 1)

VARIABLES
  pages_,          \* frame -> [page_id, pin_count, is_dirty, data]
  page_table_,     \* ExtendibleHashTable<page_id_t, frame_id_t>
  replacer_,       \* LRUKReplacer
  free_list_,      \* std::list<frame_id_t>
  next_page_id_,   \* the AllocatePage counter
  disk,            \* DiskManager: page id -> bytes
  disk_writes,     \* page ids the last buffer pool call passed to WritePage, in order
  bpm_ret,         \* what the last buffer pool call returned: TRUE for a page or true
  returned         \* page ids returned by NewPage so far

bpmVars == <<pages_, page_table_, replacer_, free_list_, next_page_id_, disk, disk_writes,
            bpm_ret, returned>>

\* a replacer and a hash table used on their own
VARIABLES
  lru,             \* LRUKReplacer
  lru_ret,         \* what the last replacer call returned: [ok, frame] of Evict, else NoEvict
  table,           \* ExtendibleHashTable<int, int>
  hmap             \* key -> value of the last Insert not followed by Remove (0: none)

libVars == <<lru, lru_ret, table, hmap>>

\* the B+Tree and its callers
VARIABLES
  tp,             \* tree page id -> page
  root_page_id_,  \* BPlusTree::root_page_id_
  hdr,            \* the header page's record of this index
  tpin,           \* page id -> pin count
  tnext,          \* the page id the next NewPage returns
  rl, wl,         \* latches
  th,             \* thread -> position and locals of its call
  conc,           \* the concurrent calls have started
  called,         \* thread -> the call it made then
  nsetup,         \* keys inserted before they started
  nscan,          \* scans started in a sequential run
  ncalls,         \* Insert and Remove calls started in a sequential run
  amap,           \* key -> value of the last successful Insert not followed by Remove (0: none)
  unpin0,         \* an UnpinPage of the tree found pin count 0
  delfail,        \* a DeletePage of the tree found the page pinned
  ub,             \* a call read a page that does not exist or a slot outside an array
  race            \* kinds of page accesses made without the latch the access needs

treeVars == <<tp, root_page_id_, hdr, tpin, tnext, rl, wl, th, conc, called, nsetup, nscan, ncalls, amap,
              unpin0, delfail, ub, race>>


Pow2(n) == 2 ^ n

(***************************************************************************)
(* Extendible hash table (container/hash/extendible_hash_table.cpp).       *)
(* A table is [global_depth_, num_buckets_, dir_, bk]: dir_ is the         *)
(* directory (index i at position i+1) of bucket handles, bk the buckets   *)
(* [depth_, list_] the handles point to.                                   *)
(***************************************************************************)
\* std::hash of an integer key
Hash(key) == key

\* a bucket that forgets its depth
NewBucket_Shallow(array_size, depth) == [size_ |-> array_size, depth_ |-> 0, list_ |-> <<>>]

\* Bucket(array_size, depth)
NewBucket(array_size, depth) == [size_ |-> array_size, depth_ |-> depth, list_ |-> <<>>]

\* ExtendibleHashTable(bucket_size); looping records that a call of Insert
\* entered a round of its while (true) loop that repeats for ever
HT_Make(bucket_size) ==
  [global_depth_ |-> 0, bucket_size_ |-> bucket_size, num_buckets_ |-> 1, dir_ |-> <<1>>,
   bk |-> << NewBucket(bucket_size, 0) >>, looping |-> FALSE]

\* the page table of the buffer pool
HT_New == HT_Make(BucketSize)

IndexOf(ht, key) == Hash(key) % Pow2(ht.global_depth_)

BucketOf(ht, key) == ht.bk[ht.dir_[IndexOf(ht, key) + 1]]

BucketHas(b, key) == \E i \in 1 .. Len(b.list_) : b.list_[i][1] = key

BucketPos(b, key) == CHOOSE i \in 1 .. Len(b.list_) : b.list_[i][1] = key

\* Bucket::Find: [found, value]
BucketFind(b, key) ==
  IF BucketHas(b, key)
    THEN [found |-> TRUE, value |-> b.list_[BucketPos(b, key)][2]]
    ELSE [found |-> FALSE, value |-> 0]

\* Bucket::Remove: the bucket without the key
BucketRemove(b, key) ==
  IF BucketHas(b, key)
    THEN [b EXCEPT !.list_ = SubSeq(b.list_, 1, BucketPos(b, key) - 1)
                               \o SubSeq(b.list_, BucketPos(b, key) + 1, Len(b.list_))]
    ELSE b

IsFull(b) == Len(b.list_) = b.size_

\* Bucket::Insert: [ok, b]; a full bucket refuses before looking for the key
BucketInsert(b, key, value) ==
  IF IsFull(b) THEN [ok |-> FALSE, b |-> b]
  ELSE IF BucketHas(b, key)
    THEN [ok |-> TRUE, b |-> [b EXCEPT !.list_[BucketPos(b, key)] = <<key, value>>]]
    ELSE [ok |-> TRUE, b |-> [b EXCEPT !.list_ = Append(b.list_, <<key, value>>)]]

HT_Find(ht, key) == BucketFind(BucketOf(ht, key), key)

HT_Remove(ht, key) ==
  [ht EXCEPT !.bk[ht.dir_[IndexOf(ht, key) + 1]] = BucketRemove(BucketOf(ht, key), key)]

\* the bool Remove returns
HT_RemoveRet(ht, key) == BucketHas(BucketOf(ht, key), key)

\* RedistributeBucket: the items of the split bucket, from position i on, are
\* inserted through the directory
RECURSIVE RedistributeBucket(_, _, _)
RedistributeBucket(ht, items, i) ==
  IF i > Len(items) THEN ht
  ELSE LET h == ht.dir_[IndexOf(ht, items[i][1]) + 1]
           r == BucketInsert(ht.bk[h], items[i][1], items[i][2])
       IN RedistributeBucket([ht EXCEPT !.bk[h] = r.b], items, i + 1)

\* a round of the split that doubles the directory whatever the bucket's depth
HT_Split_Double(ht, key) ==
  LET idx == IndexOf(ht, key)
      h   == ht.dir_[idx + 1]
      d   == ht.bk[h].depth_
      gd  == ht.global_depth_ + 1
      dir1 == ht.dir_ \o ht.dir_
      a   == Len(ht.bk) + 1
      dir2 == [i \in 1 .. Pow2(gd) |->
                IF ((i - 1) % Pow2(d)) = (idx % Pow2(d))
                  THEN IF (((i - 1) \div Pow2(d)) % 2) = 1 THEN a ELSE h
                  ELSE dir1[i]]
      fresh == NewBucket(ht.bucket_size_, d + 1)
      ht1 == [ht EXCEPT !.global_depth_ = gd, !.num_buckets_ = ht.num_buckets_ + 1,
                        !.dir_ = dir2, !.bk = Append([ht.bk EXCEPT ![h] = fresh], fresh)]
  IN RedistributeBucket(ht1, ht.bk[h].list_, 1)

\* One round of the split in Insert: the directory doubles when the bucket's
\* depth is the global depth, two fresh buckets a (bit d set) and b (bit d
\* clear) replace the old one, and the old items are redistributed.
HT_Split(ht, key) ==
  LET idx == IndexOf(ht, key)
      h   == ht.dir_[idx + 1]
      d   == ht.bk[h].depth_
      gd  == IF d = ht.global_depth_ THEN ht.global_depth_ + 1 ELSE ht.global_depth_
      dir1 == IF d = ht.global_depth_ THEN ht.dir_ \o ht.dir_ ELSE ht.dir_
      a   == Len(ht.bk) + 1
      dir2 == [i \in 1 .. Pow2(gd) |->
                IF ((i - 1) % Pow2(d)) = (idx % Pow2(d))
                  THEN IF (((i - 1) \div Pow2(d)) % 2) = 1 THEN a ELSE h
                  ELSE dir1[i]]
      fresh == NewBucket(ht.bucket_size_, d + 1)
      ht1 == [ht EXCEPT !.global_depth_ = gd, !.num_buckets_ = ht.num_buckets_ + 1,
                        !.dir_ = dir2, !.bk = Append([ht.bk EXCEPT ![h] = fresh], fresh)]
  IN RedistributeBucket(ht1, ht.bk[h].list_, 1)

\* A full bucket all of whose items hash like the key: every split sends all
\* of them to the bucket of the key again, which is full again, so that no
\* later round of the loop of Insert can return.
SplitsForEver(b, key) ==
  IsFull(b) /\ \A i \in 1 .. Len(b.list_) : Hash(b.list_[i][1]) = Hash(key)

RECURSIVE HT_Insert(_, _, _)
HT_Insert(ht, key, value) ==
  LET h == ht.dir_[IndexOf(ht, key) + 1]
      r == BucketInsert(ht.bk[h], key, value)
  IN IF r.ok THEN [ht EXCEPT !.bk[h] = r.b]
     ELSE IF SplitsForEver(ht.bk[h], key) THEN [ht EXCEPT !.looping = TRUE]
     ELSE HT_Insert(HT_Split(ht, key), key, value)

(***************************************************************************)
(* LRU-K replacer (buffer/lru_k_replacer.cpp).  A replacer is              *)
(* [replacer_size_, k_, data_, curr_size_, current_timestamp_, fault];     *)
(* data_[f] is [present, t_, evictable_], t_ with the most recent access   *)
(* at the front; fault records a failed BUSTUB_ASSERT or a null            *)
(* dereference, after which the process has stopped.                       *)
(***************************************************************************)
NoEntry == [present |-> FALSE, t_ |-> <<>>, evictable_ |-> FALSE]

\* LRUKReplacer(num_frames, k)
LRUK_Make(num_frames, k) ==
  [replacer_size_ |-> num_frames, k_ |-> k, data_ |-> [f \in 0 .. (num_frames - 1) |-> NoEntry],
   curr_size_ |-> 0, current_timestamp_ |-> 0, fault |-> FALSE]

\* the replacer of the buffer pool
LRUK_New == LRUK_Make(PoolSize, ReplacerK)

Front(s) == s[1]
Back(s) == s[Len(s)]

EvictPrefers_Never(r, i, select) == FALSE

\* the comparison of Evict's loop: does frame i replace the selected frame?
EvictPrefers(r, i, select) ==
  LET e == r.data_[i].t_
      s == r.data_[select].t_
  IN \/ (Len(s) = r.k_ /\ Len(e) = r.k_ /\ Back(e) < Back(s))
     \/ (Len(s) = r.k_ /\ Len(e) < r.k_)
     \/ (Len(s) < r.k_ /\ Len(e) < r.k_ /\ Front(e) < Front(s))

RECURSIVE EvictScan(_, _, _)
EvictScan(r, i, select) ==
  IF i >= r.replacer_size_ THEN select
  ELSE IF r.data_[i].present /\ r.data_[i].evictable_
    THEN IF select = -1 THEN EvictScan(r, i + 1, i)
         ELSE IF EvictPrefers(r, i, select) THEN EvictScan(r, i + 1, i)
         ELSE EvictScan(r, i + 1, select)
    ELSE EvictScan(r, i + 1, select)

\* a BUSTUB_ASSERT whose condition is false: a fatal assertion failure
AssertFailed(r) == [r EXCEPT !.fault = TRUE]

RemoveInternal_Silent(r, f) ==
  IF ~r.data_[f].present THEN r
  ELSE [r EXCEPT !.data_[f] = NoEntry, !.curr_size_ = r.curr_size_ - 1]

RemoveInternal(r, f) ==
  IF ~r.data_[f].present THEN r
  ELSE IF ~r.data_[f].evictable_ THEN AssertFailed(r)
  ELSE [r EXCEPT !.data_[f] = NoEntry, !.curr_size_ = r.curr_size_ - 1]

\* Evict: [ok, frame, r]
LRUK_Evict(r) ==
  IF r.curr_size_ = 0 THEN [ok |-> FALSE, frame |-> -1, r |-> r]
  ELSE LET select == EvictScan(r, 0, -1)
       IN [ok |-> TRUE, frame |-> select, r |-> RemoveInternal(r, select)]

RecordAccess(r, f) ==
  LET e0 == IF r.data_[f].present THEN r.data_[f]
            ELSE [present |-> TRUE, t_ |-> <<>>, evictable_ |-> FALSE]
      t1 == <<r.current_timestamp_>> \o e0.t_
      t2 == IF Len(t1) > r.k_ THEN SubSeq(t1, 1, Len(t1) - 1) ELSE t1
  IN [r EXCEPT !.data_[f] = [e0 EXCEPT !.t_ = t2],
               !.current_timestamp_ = r.current_timestamp_ + 1]

SetEvictable_Count(r, f, set_evictable) ==
  IF ~r.data_[f].present THEN [r EXCEPT !.fault = TRUE]
  ELSE IF set_evictable
    THEN [r EXCEPT !.curr_size_ = r.curr_size_ + 1, !.data_[f].evictable_ = TRUE]
  ELSE IF r.data_[f].evictable_
    THEN [r EXCEPT !.curr_size_ = r.curr_size_ - 1, !.data_[f].evictable_ = FALSE]
  ELSE r

SetEvictable(r, f, set_evictable) ==
  IF ~r.data_[f].present THEN [r EXCEPT !.fault = TRUE]
  ELSE IF ~r.data_[f].evictable_ /\ set_evictable
    THEN [r EXCEPT !.curr_size_ = r.curr_size_ + 1, !.data_[f].evictable_ = TRUE]
  ELSE IF r.data_[f].evictable_ /\ ~set_evictable
    THEN [r EXCEPT !.curr_size_ = r.curr_size_ - 1, !.data_[f].evictable_ = FALSE]
  ELSE r

LRUK_Remove(r, f) == RemoveInternal(r, f)

LRUK_Size(r) == r.curr_size_

(***************************************************************************)
(* Buffer pool manager (buffer/buffer_pool_manager_instance.cpp)           *)
(***************************************************************************)
FreePage == [page_id |-> INVALID_PAGE_ID, pin_count |-> 0, is_dirty |-> FALSE, data |-> 0]

RECURSIVE IotaSeq(_, _)
IotaSeq(i, n) == IF i >= n THEN <<>> ELSE <<i>> \o IotaSeq(i + 1, n)

BPM_Init ==
  /\ pages_ = [f \in Frames |-> FreePage]
  /\ page_table_ = HT_New
  /\ replacer_ = LRUK_New
  /\ free_list_ = IotaSeq(0, PoolSize)
  /\ next_page_id_ = 0
  /\ disk = [p \in (PageIds \cup {INVALID_PAGE_ID}) |-> 0]
  /\ disk_writes = <<>>
  /\ bpm_ret = FALSE
  /\ returned = {}

WritePage_Lost(d, page_id, data) == d

\* disk_manager_->WritePage(page_id, data) on the disk d
WritePage(d, page_id, data) == [d EXCEPT ![page_id] = data]

EvictEntry_Keep(pt, pid) == pt

\* page_table_->Remove(pages_[f].GetPageId()) for an evicted frame
EvictEntry(pt, pid) == HT_Remove(pt, pid)

Victim_NoEvict ==
  IF free_list_ # <<>>
    THEN [ok |-> TRUE, f |-> Head(free_list_), free |-> Tail(free_list_),
          rep |-> replacer_, pt |-> page_table_, dsk |-> disk, wr |-> <<>>]
    ELSE [ok |-> FALSE, f |-> -1, free |-> free_list_, rep |-> replacer_,
          pt |-> page_table_, dsk |-> disk, wr |-> <<>>]

\* lines 45-57 and 76-88: the frame to use, from the free list or the
\* replacer; a victim loses its page-table entry and is written back if dirty.
\* [ok, f, free, rep, pt, dsk, wr]
Victim ==
  IF free_list_ # <<>>
    THEN [ok |-> TRUE, f |-> Head(free_list_), free |-> Tail(free_list_),
          rep |-> replacer_, pt |-> page_table_, dsk |-> disk, wr |-> <<>>]
  ELSE LET ev == LRUK_Evict(replacer_)
       IN IF ~ev.ok
            THEN [ok |-> FALSE, f |-> -1, free |-> free_list_, rep |-> replacer_,
                  pt |-> page_table_, dsk |-> disk, wr |-> <<>>]
            ELSE [ok |-> TRUE, f |-> ev.frame, free |-> free_list_, rep |-> ev.r,
                  pt |-> EvictEntry(page_table_, pages_[ev.frame].page_id),
                  dsk |-> IF pages_[ev.frame].is_dirty
                            THEN WritePage(disk, pages_[ev.frame].page_id, pages_[ev.frame].data)
                            ELSE disk,
                  wr |-> IF pages_[ev.frame].is_dirty
                            THEN <<pages_[ev.frame].page_id>> ELSE <<>>]

\* the frame is bound to the page and made non-evictable with no access
\* recorded
Bind_NoAccess(v, pid) ==
  /\ pages_' = [pages_ EXCEPT ![v.f] = [page_id |-> pid, pin_count |-> 1,
                                        is_dirty |-> FALSE, data |-> v.dsk[pid]]]
  /\ page_table_' = HT_Insert(v.pt, pid, v.f)
  /\ replacer_' = SetEvictable(v.rep, v.f, FALSE)
  /\ free_list_' = v.free
  /\ disk' = v.dsk
  /\ disk_writes' = v.wr

\* lines 58-66 and 89-98: the frame is bound to the page, pinned once and made
\* non-evictable
Bind(v, pid) ==
  /\ pages_' = [pages_ EXCEPT ![v.f] = [page_id |-> pid, pin_count |-> 1,
                                        is_dirty |-> FALSE, data |-> v.dsk[pid]]]
  /\ page_table_' = HT_Insert(v.pt, pid, v.f)
  /\ replacer_' = SetEvictable(RecordAccess(v.rep, v.f), v.f, FALSE)
  /\ free_list_' = v.free
  /\ disk' = v.dsk
  /\ disk_writes' = v.wr

\* AllocatePage: the counter after the call (the id returned is the old value)
AllocatePage == next_page_id_ + 1

NewPgImp ==
  /\ next_page_id_ < MaxPageId
  /\ replacer_.current_timestamp_ < MaxTime
  /\ next_page_id_' = AllocatePage
  /\ LET v == Victim
     IN IF ~v.ok
          THEN /\ bpm_ret' = FALSE
               /\ disk_writes' = <<>>
               /\ UNCHANGED <<pages_, page_table_, replacer_, free_list_, disk, returned>>
          ELSE /\ Bind(v, next_page_id_)
               /\ returned' = returned \cup {next_page_id_}
               /\ bpm_ret' = TRUE
  /\ UNCHANGED <<treeVars, libVars>>

PinOnce_Reset(page) == [page EXCEPT !.pin_count = 1]

\* pages_[f].pin_count_++ of a fetch
PinOnce(page) == [page EXCEPT !.pin_count = @ + 1]

FetchPgImp(page_id) ==
  /\ replacer_.current_timestamp_ < MaxTime
  /\ LET find == HT_Find(page_table_, page_id)
     IN IF find.found
          THEN /\ pages_' = [pages_ EXCEPT ![find.value] = PinOnce(@)]
               /\ replacer_' = SetEvictable(RecordAccess(replacer_, find.value), find.value, FALSE)
               /\ bpm_ret' = TRUE
               /\ disk_writes' = <<>>
               /\ UNCHANGED <<page_table_, free_list_, disk>>
          ELSE LET v == Victim
               IN IF ~v.ok
                    THEN /\ bpm_ret' = FALSE
                         /\ disk_writes' = <<>>
                         /\ UNCHANGED <<pages_, page_table_, replacer_, free_list_, disk>>
                    ELSE /\ Bind(v, page_id)
                         /\ bpm_ret' = TRUE
  /\ UNCHANGED <<next_page_id_, returned>>
  /\ UNCHANGED <<treeVars, libVars>>

UnpinEvictable_Always(r, f, pin_count) == SetEvictable(r, f, TRUE)

\* lines 113-115: the frame becomes evictable when its pin count reached 0
UnpinEvictable(r, f, pin_count) ==
  IF pin_count = 0 THEN SetEvictable(r, f, TRUE) ELSE r

UnpinOnce_Stay(page, is_dirty) ==
  [page EXCEPT !.is_dirty = IF is_dirty THEN TRUE ELSE @]

UnpinOnce_Assign(page, is_dirty) ==
  [page EXCEPT !.pin_count = @ - 1, !.is_dirty = is_dirty]

\* lines 112 and 116-118: pin_count_-- and the dirty flag set when is_dirty
UnpinOnce(page, is_dirty) ==
  [page EXCEPT !.pin_count = @ - 1, !.is_dirty = IF is_dirty THEN TRUE ELSE @]

UnpinPgImp(page_id, is_dirty) ==
  /\ LET find == HT_Find(page_table_, page_id)
         f == find.value
     IN IF ~find.found \/ pages_[f].pin_count = 0
          THEN /\ bpm_ret' = FALSE
               /\ UNCHANGED <<pages_, replacer_>>
          ELSE /\ pages_' = [pages_ EXCEPT ![f] = UnpinOnce(@, is_dirty)]
               /\ replacer_' = UnpinEvictable(replacer_, f, pages_[f].pin_count - 1)
               /\ bpm_ret' = TRUE
  /\ disk_writes' = <<>>
  /\ UNCHANGED <<page_table_, free_list_, next_page_id_, disk, returned>>
  /\ UNCHANGED <<treeVars, libVars>>

FlushPgImp(page_id) ==
  /\ LET find == HT_Find(page_table_, page_id)
         f == find.value
     IN IF ~find.found
          THEN /\ bpm_ret' = FALSE
               /\ disk_writes' = <<>>
               /\ UNCHANGED <<pages_, disk>>
          ELSE /\ disk' = WritePage(disk, page_id, pages_[f].data)
               /\ disk_writes' = <<page_id>>
               /\ pages_' = [pages_ EXCEPT ![f].is_dirty = FALSE]
               /\ bpm_ret' = TRUE
  /\ UNCHANGED <<page_table_, replacer_, free_list_, next_page_id_, returned>>
  /\ UNCHANGED <<treeVars, libVars>>

\* the loop of FlushAllPgsImp over the frames f .. pool_size_-1
RECURSIVE FlushFrames(_, _)
FlushFrames(d, f) ==
  IF f >= PoolSize THEN d
  ELSE FlushFrames(WritePage(d, pages_[f].page_id, pages_[f].data), f + 1)

\* the page ids that loop passes to WritePage
RECURSIVE FlushedIds(_)
FlushedIds(f) ==
  IF f >= PoolSize THEN <<>> ELSE <<pages_[f].page_id>> \o FlushedIds(f + 1)

FlushAllPgsImp ==
  /\ disk' = FlushFrames(disk, 0)
  /\ disk_writes' = FlushedIds(0)
  /\ pages_' = [f \in Frames |-> [pages_[f] EXCEPT !.is_dirty = FALSE]]
  /\ UNCHANGED <<page_table_, replacer_, free_list_, next_page_id_, bpm_ret, returned>>
  /\ UNCHANGED <<treeVars, libVars>>

FreeFrame_Twice(fl, f) == Append(Append(fl, f), f)

\* free_list_.push_back(f)
FreeFrame(fl, f) == Append(fl, f)

DeletePgImp(page_id) ==
  /\ LET find == HT_Find(page_table_, page_id)
         f == find.value
     IN IF ~find.found
          THEN /\ bpm_ret' = TRUE
               /\ UNCHANGED <<pages_, page_table_, replacer_, free_list_>>
          ELSE IF pages_[f].pin_count > 0
            THEN /\ bpm_ret' = FALSE
                 /\ UNCHANGED <<pages_, page_table_, replacer_, free_list_>>
            ELSE /\ page_table_' = HT_Remove(page_table_, page_id)
                 /\ replacer_' = LRUK_Remove(replacer_, f)
                 /\ pages_' = [pages_ EXCEPT ![f] = FreePage]
                 /\ free_list_' = FreeFrame(free_list_, f)
                 /\ bpm_ret' = TRUE
  /\ disk_writes' = <<>>
  /\ UNCHANGED <<next_page_id_, disk, returned>>
  /\ UNCHANGED <<treeVars, libVars>>

\* a client holding a pin on the page writes its bytes through the Page pointer
WriteData(page_id, d) ==
  /\ LET find == HT_Find(page_table_, page_id)
     IN /\ find.found
        /\ pages_[find.value].pin_count > 0
        /\ pages_[find.value].data # d
        /\ pages_' = [pages_ EXCEPT ![find.value].data = d]
  /\ bpm_ret' = TRUE
  /\ disk_writes' = <<>>
  /\ UNCHANGED <<page_table_, replacer_, free_list_, next_page_id_, disk, returned>>
  /\ UNCHANGED <<treeVars, libVars>>

\* Clients name only page ids that AllocatePage has handed out (section 3 of
\* the specification: pages are created by NewPage).
Allocated == 0 .. (next_page_id_ - 1)

BPM_Next ==
  \/ NewPgImp
  \/ \E p \in Allocated : FetchPgImp(p)
  \/ \E p \in Allocated, d \in BOOLEAN : UnpinPgImp(p, d)
  \/ \E p \in Allocated : FlushPgImp(p)
  \/ FlushAllPgsImp
  \/ \E p \in Allocated : DeletePgImp(p)

BPM_NextData ==
  \/ BPM_Next
  \/ \E p \in Allocated \cap (0 .. MaxDataPage), d \in 1 .. MaxData : WriteData(p, d)

(***************************************************************************)
(* The replacer on its own: any caller, any order of calls.  A call that   *)
(* fails a BUSTUB_ASSERT or dereferences the null entry of an untracked    *)
(* frame ends the process: nothing is called after it.                     *)
(***************************************************************************)
ReplacerFrameIds == 0 .. (ReplacerFrames - 1)

NoEvict == [ok |-> FALSE, frame |-> 0 - 1]

LRU_Init ==
  /\ lru \in {LRUK_Make(ReplacerFrames, k) : k \in 1 .. MaxK}
  /\ lru_ret = NoEvict

\* the replacer of Init, when it is not the one under study
LRU_Idle ==
  /\ lru = LRUK_Make(ReplacerFrames, 1)
  /\ lru_ret = NoEvict

LRU_RecordAccess(f) ==
  /\ ~ lru.fault
  /\ lru.current_timestamp_ < MaxAccesses
  /\ lru' = RecordAccess(lru, f)
  /\ lru_ret' = NoEvict
  /\ UNCHANGED <<table, hmap>>
  /\ UNCHANGED <<bpmVars, treeVars>>

LRU_SetEvictable(f, set_evictable) ==
  /\ ~ lru.fault
  /\ lru' = SetEvictable(lru, f, set_evictable)
  /\ lru_ret' = NoEvict
  /\ UNCHANGED <<table, hmap>>
  /\ UNCHANGED <<bpmVars, treeVars>>

LRU_Evict ==
  /\ ~ lru.fault
  /\ LET ev == LRUK_Evict(lru)
     IN /\ lru' = ev.r
        /\ lru_ret' = [ok |-> ev.ok, frame |-> ev.frame]
  /\ UNCHANGED <<table, hmap>>
  /\ UNCHANGED <<bpmVars, treeVars>>

LRU_Remove(f) ==
  /\ ~ lru.fault
  /\ lru' = LRUK_Remove(lru, f)
  /\ lru_ret' = NoEvict
  /\ UNCHANGED <<table, hmap>>
  /\ UNCHANGED <<bpmVars, treeVars>>

LRU_Next ==
  \/ \E f \in ReplacerFrameIds : LRU_RecordAccess(f)
  \/ \E f \in ReplacerFrameIds, b \in BOOLEAN : LRU_SetEvictable(f, b)
  \/ LRU_Evict
  \/ \E f \in ReplacerFrameIds : LRU_Remove(f)

(***************************************************************************)
(* The hash table on its own: any sequence of Insert and Remove.  Nothing  *)
(* is called after an Insert that does not return.                         *)
(***************************************************************************)
HashKeys == 0 .. MaxHashKey
HashValues == 1 .. MaxHashValue

Hash_Init ==
  /\ table \in {HT_Make(b) : b \in 1 .. MaxBucketSize}
  /\ hmap = [k \in HashKeys |-> 0]

\* the table of Init, when it is not the one under study
Hash_Idle ==
  /\ table = HT_Make(1)
  /\ hmap = [k \in HashKeys |-> 0]

Hash_Insert(key, value) ==
  /\ ~ table.looping
  /\ table' = HT_Insert(table, key, value)
  /\ hmap' = IF table'.looping THEN hmap ELSE [hmap EXCEPT ![key] = value]
  /\ UNCHANGED <<lru, lru_ret>>
  /\ UNCHANGED <<bpmVars, treeVars>>

Hash_Remove(key) ==
  /\ ~ table.looping
  /\ table' = HT_Remove(table, key)
  /\ hmap' = [hmap EXCEPT ![key] = 0]
  /\ UNCHANGED <<lru, lru_ret>>
  /\ UNCHANGED <<bpmVars, treeVars>>

Hash_Next ==
  \/ \E k \in HashKeys, v \in HashValues : Hash_Insert(k, v)
  \/ \E k \in HashKeys : Hash_Remove(k)

(***************************************************************************)
(* B+Tree pages.  A page is [ptype, parent, next, max_size, items]; items  *)
(* is array_[0 .. size-1] (index i at position i+1) of <<key, value>>; in  *)
(* an internal page the value is a child page id and the key of slot 0 is  *)
(* unused (0).                                                             *)
(***************************************************************************)
HEADER_PAGE_ID == 0

NoPage == [ptype |-> "none", parent |-> INVALID_PAGE_ID, next |-> INVALID_PAGE_ID,
           max_size |-> 0, items |-> <<>>]

\* B_PLUS_TREE_LEAF_PAGE_TYPE::Init
LeafInit(parent_id, max_size) ==
  [ptype |-> "leaf", parent |-> parent_id, next |-> INVALID_PAGE_ID,
   max_size |-> max_size, items |-> <<>>]

\* BPlusTreeInternalPage::Init
InternalInit(parent_id, max_size) ==
  [ptype |-> "internal", parent |-> parent_id, next |-> INVALID_PAGE_ID,
   max_size |-> max_size, items |-> <<>>]

GetSize(pg) == Len(pg.items)

\* BPlusTreePage::GetMinSize: ceil(max_size / 2)
GetMinSize(pg) == (pg.max_size + 1) \div 2

KeyAt(pg, index) == pg.items[index + 1][1]
ValueAt(pg, index) == pg.items[index + 1][2]

RemoveAt(items, pos) == SubSeq(items, 1, pos - 1) \o SubSeq(items, pos + 1, Len(items))
InsertAt(items, pos, item) == SubSeq(items, 1, pos - 1) \o <<item>> \o SubSeq(items, pos, Len(items))

\* positions whose key is >= key
GePos(items, key) == {i \in 1 .. Len(items) : items[i][1] >= key}
Min(S) == CHOOSE x \in S : \A y \in S : x <= y
Max(S) == CHOOSE x \in S : \A y \in S : x >= y

LeafLookup_Miss(pg, key) == [found |-> FALSE, value |-> 0]

\* a lookup that finds nothing in a full leaf
LeafLookup_FullMiss(pg, key) ==
  IF GetSize(pg) < pg.max_size /\ GePos(pg.items, key) # {}
       /\ pg.items[Min(GePos(pg.items, key))][1] = key
    THEN [found |-> TRUE, value |-> pg.items[Min(GePos(pg.items, key))][2]]
    ELSE [found |-> FALSE, value |-> 0]

\* B_PLUS_TREE_LEAF_PAGE_TYPE::Lookup: [found, value]
LeafLookup(pg, key) ==
  IF GePos(pg.items, key) # {} /\ pg.items[Min(GePos(pg.items, key))][1] = key
    THEN [found |-> TRUE, value |-> pg.items[Min(GePos(pg.items, key))][2]]
    ELSE [found |-> FALSE, value |-> 0]

\* B_PLUS_TREE_LEAF_PAGE_TYPE::Insert
LeafInsert(pg, key, value) ==
  IF GePos(pg.items, key) = {}
    THEN [pg EXCEPT !.items = Append(pg.items, <<key, value>>)]
  ELSE IF pg.items[Min(GePos(pg.items, key))][1] = key THEN pg
  ELSE [pg EXCEPT !.items = InsertAt(pg.items, Min(GePos(pg.items, key)), <<key, value>>)]

\* B_PLUS_TREE_LEAF_PAGE_TYPE::RemoveAndDeleteRecord
RemoveAndDeleteRecord(pg, key) ==
  IF GePos(pg.items, key) # {} /\ pg.items[Min(GePos(pg.items, key))][1] = key
    THEN [pg EXCEPT !.items = RemoveAt(pg.items, Min(GePos(pg.items, key)))]
    ELSE pg

\* B_PLUS_TREE_LEAF_PAGE_TYPE::KeyIndex
KeyIndex(pg, key) ==
  IF GePos(pg.items, key) # {} THEN Min(GePos(pg.items, key)) - 1 ELSE 0

\* a split that leaves every item behind as well
LeafKeep_All(pg) == pg.items

\* B_PLUS_TREE_LEAF_PAGE_TYPE::MoveHalfTo: the items that stay and those moved
LeafKeep(pg) == SubSeq(pg.items, 1, GetMinSize(pg))
LeafMoved(pg) == SubSeq(pg.items, GetMinSize(pg) + 1, Len(pg.items))

(***************************************************************************)
(* Internal page operations.  b_plus_tree_internal_page.cpp is not among   *)
(* the sources; these follow section 4.4 of the specification and the call *)
(* sites in b_plus_tree.cpp.                                               *)
(***************************************************************************)
\* positions (from slot 1 on) whose key is <= key
LePos(items, key) == {i \in 2 .. Len(items) : items[i][1] <= key}

\* InternalPage::Lookup: the child whose key range holds key
InternalLookup(pg, key) ==
  IF LePos(pg.items, key) = {} THEN pg.items[1][2]
  ELSE pg.items[Max(LePos(pg.items, key))][2]

\* InternalPage::ValueIndex: the slot whose value is the child, -1 if none
ValueIndex(pg, child) ==
  IF \E i \in 1 .. Len(pg.items) : pg.items[i][2] = child
    THEN (CHOOSE i \in 1 .. Len(pg.items) : pg.items[i][2] = child) - 1
    ELSE -1

\* InternalPage::PopulateNewRoot
PopulateNewRoot(pg, old_id, key, new_id) ==
  [pg EXCEPT !.items = << <<0, old_id>>, <<key, new_id>> >>]

\* InternalPage::InsertNodeAfter
InsertNodeAfter(pg, old_id, key, new_id) ==
  [pg EXCEPT !.items = InsertAt(pg.items, ValueIndex(pg, old_id) + 2, <<key, new_id>>)]

\* InternalPage::InsertAndGetMid: the max_size + 1 entries in key order
WithEntry(pg, key, child) ==
  IF {i \in 2 .. Len(pg.items) : pg.items[i][1] > key} = {}
    THEN Append(pg.items, <<key, child>>)
    ELSE InsertAt(pg.items, Min({i \in 2 .. Len(pg.items) : pg.items[i][1] > key}), <<key, child>>)

\* the middle entry that is pushed up, and the entries left in the page
MidEntry(pg, key, child) == WithEntry(pg, key, child)[GetMinSize(pg) + 1]
WithoutMid(pg, key, child) == RemoveAt(WithEntry(pg, key, child), GetMinSize(pg) + 1)

(***************************************************************************)
(* The tree's view of the buffer pool and of the pages.  An operation      *)
(* works on a record M = [tp, root, hdr, pin, nxt, unpin0, ub, rd, wr, nd]:*)
(* tp the pages, root root_page_id_, hdr the header page's record of the   *)
(* root, pin the pin counts, nxt the next page id NewPage returns, unpin0  *)
(* whether some UnpinPage found pin count 0, ub whether the code read      *)
(* outside an array or fetched a page that does not exist, rd and wr the   *)
(* pages whose bytes the step read and wrote, nd the need_delete vector.   *)
(* The pool is large enough that no tree page is evicted.                  *)
(***************************************************************************)
\* leaf_max_size_ and internal_max_size_ of the tree
LeafMaxSize == 3
InternalMaxSize == 3
\* tree page ids are 1 .. MaxTreePages (page 0 is the header page)
MaxTreePages == 8

TreePages == 1 .. MaxTreePages

IsRootPage(pg) == pg.parent = INVALID_PAGE_ID
IsLeafPage(pg) == pg.ptype = "leaf"

\* FetchPgImp for a resident page: one more pin
MFetch(M, p) == [M EXCEPT !.pin[p] = @ + 1]

\* UnpinPgImp: false when the pin count is already 0
MUnpin(M, p) ==
  IF M.pin[p] = 0 THEN [M EXCEPT !.unpin0 = TRUE] ELSE [M EXCEPT !.pin[p] = @ - 1]

\* NewPgImp: page id M.nxt, pinned once
MNewPage(M) == [M EXCEPT !.pin[M.nxt] = 1, !.nxt = @ + 1]

MRead(M, p) == [M EXCEPT !.rd = @ \cup {p}]
MWrite(M, p, pg) == [M EXCEPT !.tp[p] = pg, !.wr = @ \cup {p}]

\* WUnlatch and UnpinPage of the pages locked[i .. Len(locked)]
RECURSIVE UnpinAll(_, _, _)
UnpinAll(M, locked, i) ==
  IF i > Len(locked) THEN M ELSE UnpinAll(MUnpin(M, locked[i]), locked, i + 1)

\* HeaderPage::UpdateRecord: the root id is persisted in the header page's
\* (index_name, root_page_id) record of this index
UpdateRecord(rec, root) == [present |-> TRUE, root |-> root]

\* BPlusTree::UpdateRootPageId(0)
UpdateRootPageId(M) ==
  MUnpin([MFetch(M, HEADER_PAGE_ID) EXCEPT !.hdr = UpdateRecord(M.hdr, M.root),
                                            !.wr = @ \cup {HEADER_PAGE_ID}],
         HEADER_PAGE_ID)

\* BPlusTree::StartNewTree, line 84: NewPage(&root_page_id_)
StartNewTree_NewPage(M) == [MNewPage(M) EXCEPT !.root = M.nxt]

\* BPlusTree::StartNewTree, lines 86-88: the page this thread allocated is
\* initialised, and the page root_page_id_ names now is unpinned
StartNewTree_Init(M, mine) ==
  LET M1 == UpdateRootPageId(M)
      M2 == MWrite(M1, mine, LeafInit(INVALID_PAGE_ID, LeafMaxSize))
  IN MUnpin(M2, M2.root)

\* the children in items[i ..] get the parent pointer new_parent: each is
\* fetched, changed and unpinned
RECURSIVE Reparent(_, _, _, _)
Reparent(M, items, i, new_parent) ==
  IF i > Len(items) THEN M
  ELSE LET c == items[i][2]
           M1 == MFetch(M, c)
           M2 == MWrite(M1, c, [M1.tp[c] EXCEPT !.parent = new_parent])
       IN Reparent(MUnpin(M2, c), items, i + 1, new_parent)

\* BPlusTree::Split(LeafPage*): the new page has id M.nxt
SplitLeaf(M, node_id) ==
  LET node == M.tp[node_id]
      id == M.nxt
      M1 == MNewPage(M)
      new_page == [LeafInit(node.parent, node.max_size) EXCEPT
                     !.next = node.next, !.items = LeafMoved(node)]
      M2 == MWrite(M1, id, new_page)
  IN MWrite(M2, node_id, [node EXCEPT !.next = id, !.items = LeafKeep(node)])

\* InsertAndGetMid followed by BPlusTree::Split(InternalPage*, page_id): the
\* page keeps its first min_size entries, the new page (id M.nxt) gets the
\* middle entry's child in slot 0 and the entries after it
SplitInternal(M, node_id, key, child) ==
  LET node == M.tp[node_id]
      id == M.nxt
      mid == MidEntry(node, key, child)
      rest == WithoutMid(node, key, child)
      moved == <<<<0, mid[2]>>>> \o SubSeq(rest, GetMinSize(node) + 1, Len(rest))
      M1 == MNewPage(M)
      M2 == MWrite(M1, id, [InternalInit(node.parent, node.max_size) EXCEPT !.items = moved])
      M3 == MWrite(M2, node_id, [node EXCEPT !.items = SubSeq(rest, 1, GetMinSize(node))])
  IN Reparent(M3, moved, 1, id)

\* a new root that is not made the parent of the new sibling
InsertIntoParent_NewRoot_Orphan(M, old_id, key, new_id) ==
  LET id == M.nxt
      M1 == MNewPage(M)
      M2 == MWrite(M1, id, PopulateNewRoot(InternalInit(INVALID_PAGE_ID, InternalMaxSize),
                                           old_id, key, new_id))
      M3 == MWrite(M2, old_id, [M2.tp[old_id] EXCEPT !.parent = id])
      M5 == UpdateRootPageId([M3 EXCEPT !.root = id])
  IN MUnpin(M5, id)

\* BPlusTree::InsertIntoParent, lines 193-204: the node that split is the root
InsertIntoParent_NewRoot(M, old_id, key, new_id) ==
  LET id == M.nxt
      M1 == MNewPage(M)
      M2 == MWrite(M1, id, PopulateNewRoot(InternalInit(INVALID_PAGE_ID, InternalMaxSize),
                                           old_id, key, new_id))
      M3 == MWrite(M2, old_id, [M2.tp[old_id] EXCEPT !.parent = id])
      M4 == MWrite(M3, new_id, [M3.tp[new_id] EXCEPT !.parent = id])
      M5 == UpdateRootPageId([M4 EXCEPT !.root = id])
  IN MUnpin(M5, id)

\* BPlusTree::InsertIntoParent
RECURSIVE InsertIntoParent(_, _, _, _)
InsertIntoParent(M, old_id, key, new_id) ==
  IF IsRootPage(M.tp[old_id])
    THEN InsertIntoParent_NewRoot(M, old_id, key, new_id)
    ELSE LET parent_id == M.tp[old_id].parent
             M1 == MWrite(M, new_id, [M.tp[new_id] EXCEPT !.parent = parent_id])
             M2 == MRead(MFetch(M1, parent_id), parent_id)
             parent == M2.tp[parent_id]
         IN IF GetSize(parent) < parent.max_size
              THEN MUnpin(MWrite(M2, parent_id, InsertNodeAfter(parent, old_id, key, new_id)),
                          parent_id)
              ELSE LET mid == MidEntry(parent, key, new_id)
                       nid == M2.nxt
                       M3 == SplitInternal(M2, parent_id, key, new_id)
                       M4 == InsertIntoParent(M3, parent_id, mid[1], nid)
                   IN MUnpin(MUnpin(M4, parent_id), nid)

\* BPlusTree::InsertIntoLeaf after FindLeafPage: locked holds the header page
\* and the pages of the path, all W-latched and pinned; every latch is
\* released when it returns.  The result is M with the field ret.
InsertIntoLeaf(M, locked, key, value) ==
  LET n == Len(locked)
      leaf_id == locked[n]
      leaf == M.tp[leaf_id]
      safe == GetSize(leaf) < leaf.max_size
      M0 == MRead(M, leaf_id)
      M1 == IF safe THEN UnpinAll(M0, SubSeq(locked, 1, n - 1), 1) ELSE M0
  IN IF LeafLookup(leaf, key).found
       THEN LET M2 == IF GetSize(leaf) = leaf.max_size
                        THEN UnpinAll(M1, SubSeq(locked, 1, n - 1), 1) ELSE M1
            IN [m |-> MUnpin(M2, leaf_id), ret |-> FALSE]
     ELSE IF safe
       THEN [m |-> MUnpin(MWrite(M1, leaf_id, LeafInsert(leaf, key, value)), leaf_id),
             ret |-> TRUE]
     ELSE LET nid == M1.nxt
              M2 == SplitLeaf(M1, leaf_id)
              mid_key == KeyAt(M2.tp[nid], 0)
              M3 == IF key > mid_key
                      THEN MWrite(M2, nid, LeafInsert(M2.tp[nid], key, value))
                      ELSE MWrite(M2, leaf_id, LeafInsert(M2.tp[leaf_id], key, value))
              M4 == InsertIntoParent(M3, leaf_id, mid_key, nid)
              M5 == MUnpin(M4, nid)
          IN [m |-> UnpinAll(M5, locked, 1), ret |-> TRUE]

SetItems(M, p, items) == MWrite(M, p, [M.tp[p] EXCEPT !.items = items])
SetKeyAt(items, index, key) == [items EXCEPT ![index + 1] = <<key, items[index + 1][2]>>]
Last(items) == items[Len(items)]
ButLast(items) == SubSeq(items, 1, Len(items) - 1)

\* FetchPage, SetParentPageId, UnpinPage of one child
ReparentOne(M, c, new_parent) == Reparent(M, <<<<0, c>>>>, 1, new_parent)

\* an entry is borrowed and the parent's separator is left as it was
RedistributeLeaf_StaleKey(M, node_id, sibling_id, parent_id, idx, sibling_idx, sibling_is_left) ==
  LET node == M.tp[node_id]
      sibling == M.tp[sibling_id]
  IN IF sibling_is_left
       THEN SetItems(SetItems(M, node_id, <<Last(sibling.items)>> \o node.items),
                     sibling_id, ButLast(sibling.items))
       ELSE SetItems(SetItems(M, node_id, Append(node.items, Head(sibling.items))),
                     sibling_id, Tail(sibling.items))

\* BPlusTree::Redistribute(LeafPage*, ...): MoveLastToFrontOf / MoveFirstToEndOf
RedistributeLeaf(M, node_id, sibling_id, parent_id, idx, sibling_idx, sibling_is_left) ==
  LET node == M.tp[node_id]
      sibling == M.tp[sibling_id]
      parent == M.tp[parent_id]
  IN IF sibling_is_left
       THEN LET M1 == SetItems(M, node_id, <<Last(sibling.items)>> \o node.items)
                M2 == SetItems(M1, sibling_id, ButLast(sibling.items))
            IN SetItems(M2, parent_id, SetKeyAt(parent.items, idx, KeyAt(M2.tp[node_id], 0)))
       ELSE LET M1 == SetItems(M, node_id, Append(node.items, Head(sibling.items)))
                M2 == SetItems(M1, sibling_id, Tail(sibling.items))
            IN SetItems(M2, parent_id,
                        SetKeyAt(parent.items, sibling_idx, KeyAt(M2.tp[sibling_id], 0)))

\* BPlusTree::Redistribute(InternalPage*, ...): PushFront/PopBack/SetX and
\* PushBack/PopFront/SetX rotate one child through the parent's separator
RedistributeInternal(M, node_id, sibling_id, parent_id, idx, sibling_idx, sibling_is_left) ==
  LET node == M.tp[node_id]
      sibling == M.tp[sibling_id]
      parent == M.tp[parent_id]
  IN IF sibling_is_left
       THEN LET split_key == KeyAt(parent, idx)
                sibling_back == Last(sibling.items)
                M1 == SetItems(M, node_id,
                               <<<<0, sibling_back[2]>>, <<split_key, ValueAt(node, 0)>>>>
                                 \o Tail(node.items))
                M2 == SetItems(M1, sibling_id, ButLast(sibling.items))
                M3 == ReparentOne(M2, sibling_back[2], node_id)
            IN SetItems(M3, parent_id, SetKeyAt(parent.items, idx, sibling_back[1]))
       ELSE LET split_key == KeyAt(parent, sibling_idx)
                sibling_front == sibling.items[2]
                M1 == SetItems(M, node_id, Append(node.items, <<split_key, ValueAt(sibling, 0)>>))
                M2 == ReparentOne(M1, ValueAt(sibling, 0), node_id)
                M3 == SetItems(M2, sibling_id,
                               <<<<0, sibling_front[2]>>>> \o SubSeq(sibling.items, 3, Len(sibling.items)))
            IN SetItems(M3, parent_id, SetKeyAt(parent.items, sibling_idx, sibling_front[1]))

\* BPlusTree::Coalesce(LeafPage*, ...): MoveAllToEndOf, Remove, SetNextPageId
CoalesceLeaf(M, node_id, sibling_id, parent_id, idx, sibling_idx, sibling_is_left) ==
  LET node == M.tp[node_id]
      sibling == M.tp[sibling_id]
      parent == M.tp[parent_id]
  IN IF sibling_is_left
       THEN LET M1 == MWrite(M, sibling_id, [sibling EXCEPT !.items = @ \o node.items,
                                                            !.next = node.next])
                M2 == SetItems(M1, node_id, <<>>)
            IN SetItems(M2, parent_id, RemoveAt(parent.items, idx + 1))
       ELSE LET M1 == MWrite(M, node_id, [node EXCEPT !.items = @ \o sibling.items,
                                                      !.next = sibling.next])
                M2 == SetItems(M1, sibling_id, <<>>)
            IN SetItems(M2, parent_id, RemoveAt(parent.items, sibling_idx + 1))

\* BPlusTree::Coalesce(InternalPage*, ...): the separator comes down with the
\* merged page's leftmost child (PushBack), MoveAllTo moves the other entries
\* and re-parents their children, Remove drops the parent's entry
CoalesceInternal(M, node_id, sibling_id, parent_id, idx, sibling_idx, sibling_is_left) ==
  LET node == M.tp[node_id]
      sibling == M.tp[sibling_id]
      parent == M.tp[parent_id]
      from_id == IF sibling_is_left THEN node_id ELSE sibling_id
      to_id == IF sibling_is_left THEN sibling_id ELSE node_id
      from == M.tp[from_id]
      gone == IF sibling_is_left THEN idx ELSE sibling_idx
      M1 == SetItems(M, to_id, Append(M.tp[to_id].items, <<KeyAt(parent, gone), ValueAt(from, 0)>>))
      M2 == ReparentOne(M1, ValueAt(from, 0), to_id)
      M3 == SetItems(M2, to_id, M2.tp[to_id].items \o Tail(from.items))
      M4 == SetItems(M3, from_id, <<>>)
      M5 == Reparent(M4, Tail(from.items), 1, to_id)
  IN SetItems(M5, parent_id, RemoveAt(parent.items, gone + 1))

RECURSIVE CoalesceOrRedistribute(_, _)

\* the root's only child becomes the root and keeps its parent pointer
CoalesceOrRedistribute_NewRoot_KeepParent(M, parent_id, child_id) ==
  MUnpin(MUnpin(UpdateRootPageId([MFetch(M, child_id) EXCEPT !.root = child_id]), child_id),
         parent_id)

\* CoalesceOrRedistribute, lines 311-317: the root's only child becomes the root
CoalesceOrRedistribute_NewRoot(M, parent_id, child_id) ==
  MUnpin(MUnpin(UpdateRootPageId(
                  [MWrite(MFetch(M, child_id), child_id,
                          [M.tp[child_id] EXCEPT !.parent = M.tp[parent_id].parent])
                     EXCEPT !.root = child_id]),
                child_id),
         parent_id)

\* CoalesceOrRedistribute, lines 305-324: the parent after a merge
CoalesceOrRedistribute_Parent(M, parent_id) ==
  IF IsRootPage(M.tp[parent_id])
    THEN IF GetSize(M.tp[parent_id]) > 1
           THEN MUnpin(M, parent_id)
           ELSE CoalesceOrRedistribute_NewRoot(M, parent_id, ValueAt(M.tp[parent_id], 0))
  ELSE IF GetSize(M.tp[parent_id]) <= GetMinSize(M.tp[parent_id])
    THEN CoalesceOrRedistribute(M, parent_id)
    ELSE MUnpin(M, parent_id)

Redistribute(M, node_id, sibling_id, parent_id, idx, sibling_idx, sibling_is_left) ==
  IF IsLeafPage(M.tp[node_id])
    THEN RedistributeLeaf(M, node_id, sibling_id, parent_id, idx, sibling_idx, sibling_is_left)
    ELSE RedistributeInternal(M, node_id, sibling_id, parent_id, idx, sibling_idx, sibling_is_left)

Coalesce(M, node_id, sibling_id, parent_id, idx, sibling_idx, sibling_is_left) ==
  IF IsLeafPage(M.tp[node_id])
    THEN CoalesceLeaf(M, node_id, sibling_id, parent_id, idx, sibling_idx, sibling_is_left)
    ELSE CoalesceInternal(M, node_id, sibling_id, parent_id, idx, sibling_idx, sibling_is_left)

\* CoalesceOrRedistribute, lines 286-303: the sibling is fetched
CoalesceOrRedistribute_Sibling(M, node_id, sibling_id, parent_id, idx, sibling_idx,
                               sibling_is_left) ==
  IF M.tp[sibling_id].ptype # M.tp[node_id].ptype
    THEN [M EXCEPT !.ub = TRUE]
  ELSE IF GetSize(M.tp[sibling_id]) + GetSize(M.tp[node_id]) > M.tp[sibling_id].max_size
    THEN MUnpin(MUnpin(MUnpin(Redistribute(M, node_id, sibling_id, parent_id,
                                           idx, sibling_idx, sibling_is_left),
                              node_id), sibling_id), parent_id)
    ELSE CoalesceOrRedistribute_Parent(
           [MUnpin(MUnpin(Coalesce(M, node_id, sibling_id, parent_id,
                                   idx, sibling_idx, sibling_is_left),
                          node_id), sibling_id)
              EXCEPT !.nd = Append(@, IF sibling_is_left THEN node_id ELSE sibling_id)],
           parent_id)

\* CoalesceOrRedistribute, lines 276-285: the node's slot and its sibling's;
\* a slot outside the parent's entries is undefined
CoalesceOrRedistribute_Index(M, node_id, parent_id, idx, sibling_idx) ==
  IF idx < 0 \/ sibling_idx >= GetSize(M.tp[parent_id])
    THEN [M EXCEPT !.ub = TRUE]
    ELSE CoalesceOrRedistribute_Sibling(
           MRead(MFetch(M, ValueAt(M.tp[parent_id], sibling_idx)),
                 ValueAt(M.tp[parent_id], sibling_idx)),
           node_id, ValueAt(M.tp[parent_id], sibling_idx), parent_id,
           idx, sibling_idx, idx # 0)

\* BPlusTree::CoalesceOrRedistribute
CoalesceOrRedistribute(M, node_id) ==
  IF M.tp[node_id].parent = INVALID_PAGE_ID
       \/ M.tp[M.tp[node_id].parent].ptype # "internal"
    THEN [M EXCEPT !.ub = TRUE]
    ELSE CoalesceOrRedistribute_Index(
           MRead(MFetch(M, M.tp[node_id].parent), M.tp[node_id].parent),
           node_id, M.tp[node_id].parent,
           ValueIndex(M.tp[M.tp[node_id].parent], node_id),
           IF ValueIndex(M.tp[M.tp[node_id].parent], node_id) = 0 THEN 1
           ELSE ValueIndex(M.tp[M.tp[node_id].parent], node_id) - 1)

\* BPlusTree::Remove after FindLeafPage, up to the release of the latches:
\* need_delete is the field nd of the result
RemoveFromLeaf(M, locked, key) ==
  LET n == Len(locked)
      leaf_id == locked[n]
      leaf == M.tp[leaf_id]
      is_safe == IsRootPage(leaf) \/ GetSize(leaf) >= GetMinSize(leaf) + 1
      M0 == MRead(M, leaf_id)
  IN IF is_safe
       THEN LET M1 == UnpinAll(M0, SubSeq(locked, 1, n - 1), 1)
                M2 == MWrite(M1, leaf_id, RemoveAndDeleteRecord(leaf, key))
            IN MUnpin(M2, leaf_id)
       ELSE LET M1 == MWrite(M0, leaf_id, RemoveAndDeleteRecord(leaf, key))
                M2 == CoalesceOrRedistribute(M1, leaf_id)
            IN UnpinAll(M2, locked, 1)

\* DeletePgImp on the tree's pages: false when the page is pinned
RECURSIVE DeletePages(_, _, _)
DeletePages(M, nd, i) ==
  IF i > Len(nd) THEN M
  ELSE IF M.pin[nd[i]] > 0
    THEN DeletePages([M EXCEPT !.delfail = TRUE], nd, i + 1)
    ELSE DeletePages([M EXCEPT !.tp[nd[i]] = NoPage], nd, i + 1)

(***************************************************************************)
(* The B+Tree and its callers.  Each thread runs one call at a time; th[t] *)
(* is the call's position and locals.  rl[p][t] counts the R-latches       *)
(* thread t holds on page p, wl[p] is the thread holding the W-latch (0:   *)
(* none).  The latch (page.h) is not among the sources: a reader waits for *)
(* a writer, a writer waits for readers and writers.                       *)
(***************************************************************************)
Threads == {1, 2}
MaxKey == 5
MaxValue == 2
\* calls of Begin/Begin(key) in a sequential run
MaxScans == 1
\* calls of Insert and Remove in a sequential run
MaxCalls == 6
\* keys 1 .. n inserted before the concurrent calls start, n <= MaxSetup
MaxSetup == 5

Keys == 1 .. MaxKey
Values == 1 .. MaxValue
AllPages == 0 .. MaxTreePages

IdleThread ==
  [pc |-> "idle", op |-> "none", key |-> 0, val |-> 0, locked |-> <<>>,
   cur |-> INVALID_PAGE_ID, nxtp |-> INVALID_PAGE_ID, ret |-> 0,
   it_page |-> INVALID_PAGE_ID, it_idx |-> 0, nd |-> <<>>, seen |-> <<>>]

\* the tree after construction: no root, no record in the header page
TreeInit ==
  /\ tp = [p \in TreePages |-> NoPage]
  /\ root_page_id_ = INVALID_PAGE_ID
  /\ hdr = [present |-> FALSE, root |-> INVALID_PAGE_ID]
  /\ tpin = [p \in AllPages |-> 0]
  /\ tnext = 1
  /\ rl = [p \in AllPages |-> [t \in Threads |-> 0]]
  /\ wl = [p \in AllPages |-> 0]
  /\ th = [t \in Threads |-> IdleThread]
  /\ conc = FALSE
  /\ called = [t \in Threads |-> IdleThread]
  /\ nsetup = 0
  /\ nscan = 0
  /\ ncalls = 0
  /\ amap = [k \in Keys |-> 0]
  /\ unpin0 = FALSE
  /\ delfail = FALSE
  /\ ub = FALSE
  /\ race = {}

\* the state a step of thread t works on: the pool and the pages, the
\* latches, the thread's own locals (me) and the history variables; ub is
\* set by a step whose behaviour is undefined
Mem(t) ==
  [tp |-> tp, root |-> root_page_id_, hdr |-> hdr, pin |-> tpin, nxt |-> tnext,
   unpin0 |-> unpin0, delfail |-> delfail, ub |-> FALSE, rd |-> {}, wr |-> {}, fresh |-> {},
   nd |-> <<>>, rl |-> rl, wl |-> wl, me |-> th[t], amap |-> amap, race |-> race, ubf |-> ub]

Store(M, t) ==
  /\ tp' = M.tp
  /\ root_page_id_' = M.root
  /\ hdr' = M.hdr
  /\ tpin' = M.pin
  /\ tnext' = M.nxt
  /\ unpin0' = M.unpin0
  /\ delfail' = M.delfail
  /\ rl' = M.rl
  /\ wl' = M.wl
  /\ th' = [th EXCEPT ![t] = M.me]
  /\ amap' = M.amap
  /\ race' = M.race
  /\ ub' = M.ubf

\* ReaderWriterLatch: when RLatch and WLatch return
CanRLatch(M, p) == M.wl[p] = 0
CanWLatch(M, p) == M.wl[p] = 0 /\ \A u \in Threads : M.rl[p][u] = 0

HoldsLatch(M, t, p) == M.wl[p] = t \/ M.rl[p][t] > 0

\* the accesses of one step of thread t (from M0 to M1) that break the latch
\* discipline; fresh are the pages the step itself allocated or latched, the
\* header page is not a tree page
RaceOf(M0, M1, t) ==
  LET fresh == (M0.nxt .. M1.nxt - 1) \cup M1.fresh
  IN {k \in {"write_without_w_latch"} :
        \E p \in M1.wr \ ({HEADER_PAGE_ID} \cup fresh) : M0.wl[p] # t}
     \cup {k \in {"write_under_other_latch"} :
        \E p \in M1.wr \ {HEADER_PAGE_ID} : \E u \in Threads \ {t} : HoldsLatch(M0, u, p)}
     \cup {k \in {"read_without_latch"} :
        \E p \in M1.rd \ ({HEADER_PAGE_ID} \cup fresh) : ~ HoldsLatch(M0, t, p)}

Account(M0, M1, t) ==
  [M1 EXCEPT !.race = @ \cup RaceOf(M0, M1, t), !.rd = {}, !.wr = {}, !.fresh = {}, !.nd = <<>>]

At(M, pc) == [M EXCEPT !.me.pc = pc]

\* the thread returns from its call; amap follows the calls that return; the
\* caller keeps what the call was and the keys its scan has read
Return(M, ret) ==
  [M EXCEPT !.me = [IdleThread EXCEPT !.ret = ret, !.op = M.me.op, !.seen = M.me.seen],
            !.amap = IF M.me.op = "Insert" /\ ret = 1 THEN [@ EXCEPT ![M.me.key] = M.me.val]
                     ELSE IF M.me.op = "Remove" THEN [@ EXCEPT ![M.me.key] = 0]
                     ELSE @]

\* the call's behaviour is undefined from here on: the thread's latches are
\* dropped so that no other thread's progress depends on it
Undefined(M, t) ==
  [M EXCEPT !.me = [IdleThread EXCEPT !.pc = "ub", !.op = M.me.op, !.key = M.me.key,
                                      !.val = M.me.val],
            !.ubf = TRUE,
            !.rl = [p \in AllPages |-> [M.rl[p] EXCEPT ![t] = 0]],
            !.wl = [p \in AllPages |-> IF M.wl[p] = t THEN 0 ELSE M.wl[p]]]

IsWrite(M) == M.me.op \in {"Insert", "Remove"}
LeftMost(M) == M.me.op = "Begin"

\* WUnlatch of every page in locked
ReleaseW(M, t) == [M EXCEPT !.wl = [p \in AllPages |-> IF M.wl[p] = t THEN 0 ELSE M.wl[p]]]

\* ---- BPlusTree::Insert, lines 66-72 ----
Insert_FetchHeader_Step(M, t) == At(MFetch(M, HEADER_PAGE_ID), "ins_latch_hdr")

Insert_RLatchHeader_Step(M, t) ==
  At([M EXCEPT !.rl[HEADER_PAGE_ID][t] = @ + 1],
     IF M.root = INVALID_PAGE_ID THEN "snt_new" ELSE "ins_unlatch")

Insert_StartNewTree_NewPage_Step(M, t) ==
  [At(StartNewTree_NewPage(M), "snt_init") EXCEPT !.me.nxtp = M.nxt]

Insert_StartNewTree_Init_Step(M, t) ==
  [At(StartNewTree_Init(M, M.me.nxtp), "ins_unlatch") EXCEPT
     !.me.nxtp = INVALID_PAGE_ID, !.fresh = {M.me.nxtp}]

Insert_RUnlatchHeader_Step(M, t) ==
  At([MUnpin(M, HEADER_PAGE_ID) EXCEPT !.rl[HEADER_PAGE_ID][t] = @ - 1], "flp_fetch_hdr")

\* ---- BPlusTree::FindLeafPage ----
\* line 521
FindLeafPage_FetchHeader_Step(M, t) == At(MFetch(M, HEADER_PAGE_ID), "flp_latch_hdr")

\* lines 522-528: the header latch, then FetchPage(root_page_id_)
FindLeafPage_LatchHeader_Step(M, t) ==
  IF M.root = INVALID_PAGE_ID THEN Undefined(M, t)
  ELSE LET M1 == IF IsWrite(M)
                   THEN [M EXCEPT !.wl[HEADER_PAGE_ID] = t, !.me.locked = <<HEADER_PAGE_ID>>]
                   ELSE [M EXCEPT !.rl[HEADER_PAGE_ID][t] = @ + 1]
       IN [At(MFetch(M1, M.root), "flp_latch") EXCEPT !.me.nxtp = M.root]

\* the child the descent takes from an internal page
NextPageId(M, pg) == IF LeftMost(M) THEN ValueAt(pg, 0) ELSE InternalLookup(pg, M.me.key)

AfterFindLeafPage(M) ==
  CASE M.me.op = "Insert" -> "ins_body"
    [] M.me.op = "Remove" -> "rm_body"
    [] M.me.op = "GetValue" -> "gv_body"
    [] OTHER -> "begin_ret"

\* a descent in which a reader keeps the latch of the page above
FindLeafPage_Latch_Step_Keep(M, t) ==
  LET p == M.me.nxtp
      prev == IF M.me.cur = INVALID_PAGE_ID THEN HEADER_PAGE_ID ELSE M.me.cur
      pg == M.tp[p]
  IN IF pg.ptype = "none" \/ (pg.ptype = "internal" /\ pg.items = <<>>)
       THEN Undefined(M, t)
     ELSE
  LET M1 == IF IsWrite(M)
              THEN [M EXCEPT !.wl[p] = t, !.me.locked = Append(@, p)]
              ELSE [MUnpin(M, prev) EXCEPT !.rl[p][t] = @ + 1]
      M2 == [MRead(M1, p) EXCEPT !.fresh = {p}, !.me.cur = p]
  IN IF IsLeafPage(pg)
       THEN [At(M2, AfterFindLeafPage(M)) EXCEPT !.me.nxtp = INVALID_PAGE_ID]
       ELSE [MFetch(M2, NextPageId(M, pg)) EXCEPT !.me.nxtp = NextPageId(M, pg)]

\* lines 529-536 and 544-553: latch the fetched page; a reader then releases
\* and unpins the page above it; then the page is examined (line 537) and,
\* if it is internal, the child is fetched (lines 538-544)
FindLeafPage_Latch_Step(M, t) ==
  LET p == M.me.nxtp
      prev == IF M.me.cur = INVALID_PAGE_ID THEN HEADER_PAGE_ID ELSE M.me.cur
      pg == M.tp[p]
  IN IF pg.ptype = "none" \/ (pg.ptype = "internal" /\ pg.items = <<>>)
       THEN Undefined(M, t)
     ELSE
  LET M1 == IF IsWrite(M)
              THEN [M EXCEPT !.wl[p] = t, !.me.locked = Append(@, p)]
              ELSE [MUnpin(M, prev) EXCEPT !.rl[p][t] = @ + 1, !.rl[prev][t] = @ - 1]
      M2 == [MRead(M1, p) EXCEPT !.fresh = {p}, !.me.cur = p]
  IN IF IsLeafPage(pg)
       THEN [At(M2, AfterFindLeafPage(M)) EXCEPT !.me.nxtp = INVALID_PAGE_ID]
       ELSE [MFetch(M2, NextPageId(M, pg)) EXCEPT !.me.nxtp = NextPageId(M, pg)]

\* ---- BPlusTree::GetValue, lines 46-50 ----
GetValue_Lookup_Step(M, t) ==
  LET leaf_id == M.me.cur
      res == LeafLookup(M.tp[leaf_id], M.me.key)
      M1 == MUnpin(MRead(M, leaf_id), leaf_id)
  IN Return([M1 EXCEPT !.rl[leaf_id][t] = @ - 1], IF res.found THEN res.value ELSE 0)

\* the pages an insertion allocates: one for each full page from the leaf
\* up, and one for a new root when every page of the path is full
RECURSIVE FullPages(_, _, _)
FullPages(M, locked, i) ==
  IF i < 2 THEN 1
  ELSE IF GetSize(M.tp[locked[i]]) < M.tp[locked[i]].max_size THEN 0
  ELSE 1 + FullPages(M, locked, i - 1)

\* ---- BPlusTree::InsertIntoLeaf, lines 103-147 ----
Insert_IntoLeaf_Step(M, t) ==
  LET R == InsertIntoLeaf(M, M.me.locked, M.me.key, M.me.val)
  IN Return(ReleaseW(R.m, t), IF R.ret THEN 1 ELSE 0)

\* ---- BPlusTree::Remove ----
\* IsEmpty, line 25
Remove_FetchHeader_Step(M, t) == At(MFetch(M, HEADER_PAGE_ID), "rm_check")

\* IsEmpty, lines 26-30, and Remove line 235
Remove_IsEmpty_Step(M, t) ==
  IF M.root = INVALID_PAGE_ID
    THEN Return(MUnpin(M, HEADER_PAGE_ID), 0)
    ELSE At(MUnpin(M, HEADER_PAGE_ID), "flp_fetch_hdr")

\* lines 240-257
Remove_FromLeaf_Step(M, t) ==
  LET M1 == RemoveFromLeaf(M, M.me.locked, M.me.key)
  IN IF M1.ub THEN Undefined(M, t)
     ELSE IF M1.nd = <<>> THEN Return(ReleaseW(M1, t), 0)
     ELSE [At(ReleaseW(M1, t), "rm_delete") EXCEPT
             !.me.nd = M1.nd, !.me.locked = <<>>, !.me.cur = INVALID_PAGE_ID]

\* lines 258-260
Remove_DeletePages_Step(M, t) == Return(DeletePages(M, M.me.nd, 1), 0)

\* ---- BPlusTree::Begin, Begin(key) and the iterator ----
\* lines 457 and 469: the iterator is built and returned; the leaf stays
\* R-latched and pinned
Begin_Return_Step(M, t) ==
  LET leaf_id == M.me.cur
  IN [At(MRead(M, leaf_id), "it_deref") EXCEPT
        !.me.it_page = leaf_id,
        !.me.it_idx = IF M.me.op = "Begin" THEN 0 ELSE KeyIndex(M.tp[leaf_id], M.me.key)]

\* GetItem(idx_): the key of the slot; a slot past the leaf's size holds no
\* entry of the tree (0: a removed entry or the bytes of a fresh page)
ItemKey(leaf, idx) == IF idx < GetSize(leaf) THEN KeyAt(leaf, idx) ELSE 0

\* IndexIterator::operator*
Iterator_Deref_Step(M, t) ==
  LET p == M.me.it_page
  IN IF M.tp[p].ptype # "leaf" THEN Undefined(M, t)
     ELSE [At(MUnpin(MRead(MFetch(M, p), p), p), "it_inc") EXCEPT
             !.me.seen = Append(@, ItemKey(M.tp[p], M.me.it_idx))]

\* IndexIterator::operator++ and the comparison with End()
Iterator_Increment_Step(M, t) ==
  LET p == M.me.it_page
      leaf == M.tp[p]
      M1 == MUnpin(MRead(MFetch(M, p), p), p)
  IN IF leaf.ptype # "leaf" THEN Undefined(M, t)
     ELSE IF M.me.it_idx + 1 < GetSize(leaf) THEN [At(M1, "it_deref") EXCEPT !.me.it_idx = @ + 1]
     ELSE IF leaf.next = INVALID_PAGE_ID THEN Return(M1, 0)
     ELSE [At(M1, "it_deref") EXCEPT !.me.it_page = leaf.next, !.me.it_idx = 0]

\* whether the thread's next step can be taken: a latch request waits, and
\* the tree has MaxTreePages pages at most
Ready(M, t) ==
  CASE M.me.pc \in {"idle", "ub"} -> FALSE
    [] M.me.pc \in {"ins_latch_hdr", "rm_check"} -> CanRLatch(M, HEADER_PAGE_ID)
    [] M.me.pc = "flp_latch_hdr" ->
         IF IsWrite(M) THEN CanWLatch(M, HEADER_PAGE_ID) ELSE CanRLatch(M, HEADER_PAGE_ID)
    [] M.me.pc = "flp_latch" ->
         IF IsWrite(M) THEN CanWLatch(M, M.me.nxtp) ELSE CanRLatch(M, M.me.nxtp)
    [] M.me.pc = "snt_new" -> M.nxt <= MaxTreePages
    [] M.me.pc = "ins_body" ->
         M.nxt + FullPages(M, M.me.locked, Len(M.me.locked)) <= MaxTreePages + 1
    [] OTHER -> TRUE

\* the thread's next step
StepOf(M, t) ==
  CASE M.me.pc = "ins_fetch_hdr" -> Insert_FetchHeader_Step(M, t)
    [] M.me.pc = "ins_latch_hdr" -> Insert_RLatchHeader_Step(M, t)
    [] M.me.pc = "snt_new" -> Insert_StartNewTree_NewPage_Step(M, t)
    [] M.me.pc = "snt_init" -> Insert_StartNewTree_Init_Step(M, t)
    [] M.me.pc = "ins_unlatch" -> Insert_RUnlatchHeader_Step(M, t)
    [] M.me.pc = "flp_fetch_hdr" -> FindLeafPage_FetchHeader_Step(M, t)
    [] M.me.pc = "flp_latch_hdr" -> FindLeafPage_LatchHeader_Step(M, t)
    [] M.me.pc = "flp_latch" -> FindLeafPage_Latch_Step(M, t)
    [] M.me.pc = "gv_body" -> GetValue_Lookup_Step(M, t)
    [] M.me.pc = "ins_body" -> Insert_IntoLeaf_Step(M, t)
    [] M.me.pc = "rm_fetch_hdr" -> Remove_FetchHeader_Step(M, t)
    [] M.me.pc = "rm_check" -> Remove_IsEmpty_Step(M, t)
    [] M.me.pc = "rm_body" -> Remove_FromLeaf_Step(M, t)
    [] M.me.pc = "rm_delete" -> Remove_DeletePages_Step(M, t)
    [] M.me.pc = "begin_ret" -> Begin_Return_Step(M, t)
    [] M.me.pc = "it_deref" -> Iterator_Deref_Step(M, t)
    [] M.me.pc = "it_inc" -> Iterator_Increment_Step(M, t)

NextOf(M, t) == Account(M, StepOf(M, t), t)

\* thread t runs alone until its call returns, waits or is undefined
RECURSIVE Run(_, _)
Run(M, t) == IF Ready(M, t) THEN Run(NextOf(M, t), t) ELSE M

\* one step of thread t
Take(t) ==
  /\ Ready(Mem(t), t)
  /\ Store(NextOf(Mem(t), t), t)
  /\ UNCHANGED <<conc, called, nsetup, nscan, ncalls>>
  /\ UNCHANGED <<bpmVars, libVars>>

Insert_FetchHeader(t) ==
  /\ th[t].pc = "ins_fetch_hdr"
  /\ Take(t)

Insert_RLatchHeader(t) ==
  /\ th[t].pc = "ins_latch_hdr"
  /\ Take(t)

Insert_StartNewTree_NewPage(t) ==
  /\ th[t].pc = "snt_new"
  /\ Take(t)

Insert_StartNewTree_Init(t) ==
  /\ th[t].pc = "snt_init"
  /\ Take(t)

Insert_RUnlatchHeader(t) ==
  /\ th[t].pc = "ins_unlatch"
  /\ Take(t)

FindLeafPage_FetchHeader(t) ==
  /\ th[t].pc = "flp_fetch_hdr"
  /\ Take(t)

FindLeafPage_LatchHeader(t) ==
  /\ th[t].pc = "flp_latch_hdr"
  /\ Take(t)

FindLeafPage_Latch(t) ==
  /\ th[t].pc = "flp_latch"
  /\ Take(t)

GetValue_Lookup(t) ==
  /\ th[t].pc = "gv_body"
  /\ Take(t)

Insert_IntoLeaf(t) ==
  /\ th[t].pc = "ins_body"
  /\ Take(t)

Remove_FetchHeader(t) ==
  /\ th[t].pc = "rm_fetch_hdr"
  /\ Take(t)

Remove_IsEmpty(t) ==
  /\ th[t].pc = "rm_check"
  /\ Take(t)

Remove_FromLeaf(t) ==
  /\ th[t].pc = "rm_body"
  /\ Take(t)

Remove_DeletePages(t) ==
  /\ th[t].pc = "rm_delete"
  /\ Take(t)

Begin_Return(t) ==
  /\ th[t].pc = "begin_ret"
  /\ Take(t)

Iterator_Deref(t) ==
  /\ th[t].pc = "it_deref"
  /\ Take(t)

Iterator_Increment(t) ==
  /\ th[t].pc = "it_inc"
  /\ Take(t)

\* a GetValue whose behaviour is undefined may return anything
Undefined_Return(t) ==
  /\ th[t].pc = "ub"
  /\ th[t].op = "GetValue"
  /\ \E r \in 0 .. MaxValue : Store(Return(Mem(t), r), t)
  /\ UNCHANGED <<conc, called, nsetup, nscan, ncalls>>
  /\ UNCHANGED <<bpmVars, libVars>>

Step(t) ==
  \/ Insert_FetchHeader(t)
  \/ Insert_RLatchHeader(t)
  \/ Insert_StartNewTree_NewPage(t)
  \/ Insert_StartNewTree_Init(t)
  \/ Insert_RUnlatchHeader(t)
  \/ FindLeafPage_FetchHeader(t)
  \/ FindLeafPage_LatchHeader(t)
  \/ FindLeafPage_Latch(t)
  \/ GetValue_Lookup(t)
  \/ Insert_IntoLeaf(t)
  \/ Remove_FetchHeader(t)
  \/ Remove_IsEmpty(t)
  \/ Remove_FromLeaf(t)
  \/ Remove_DeletePages(t)
  \/ Begin_Return(t)
  \/ Iterator_Deref(t)
  \/ Iterator_Increment(t)
  \/ Undefined_Return(t)

FirstPc(op) ==
  CASE op = "Insert" -> "ins_fetch_hdr"
    [] op = "Remove" -> "rm_fetch_hdr"
    [] OTHER -> "flp_fetch_hdr"

\* a call of op(key, val)
Call(op, key, val) ==
  [IdleThread EXCEPT !.pc = FirstPc(op), !.op = op, !.key = key, !.val = val]

\* thread 1 is free to make a call; nothing is called after a call whose
\* behaviour was undefined
CanCall == ~ conc /\ ~ ub /\ th[1].pc = "idle"

\* thread 1 makes the call and runs it alone
RunCall(c) == Store(Run([Mem(1) EXCEPT !.me = c], 1), 1)

\* a client calls the tree from one thread, one call after the other
SeqInsert ==
  /\ CanCall /\ ncalls < MaxCalls
  /\ \E k \in Keys, v \in Values : RunCall(Call("Insert", k, v))
  /\ ncalls' = ncalls + 1
  /\ UNCHANGED <<conc, called, nsetup, nscan>>
  /\ UNCHANGED <<bpmVars, libVars>>

SeqRemove ==
  /\ CanCall /\ ncalls < MaxCalls
  /\ \E k \in Keys : RunCall(Call("Remove", k, 0))
  /\ ncalls' = ncalls + 1
  /\ UNCHANGED <<conc, called, nsetup, nscan>>
  /\ UNCHANGED <<bpmVars, libVars>>

SeqGetValue ==
  /\ CanCall
  /\ \E k \in Keys : RunCall(Call("GetValue", k, 0))
  /\ UNCHANGED <<conc, called, nsetup, nscan, ncalls>>
  /\ UNCHANGED <<bpmVars, libVars>>

\* Begin() or Begin(key), then the iterator is advanced to End()
SeqScan ==
  /\ CanCall /\ nscan < MaxScans
  /\ \/ RunCall(Call("Begin", 0, 0))
     \/ \E k \in Keys : RunCall(Call("BeginKey", k, 0))
  /\ nscan' = nscan + 1
  /\ UNCHANGED <<conc, called, nsetup, ncalls>>
  /\ UNCHANGED <<bpmVars, libVars>>

\* before the concurrent calls: the keys 1 .. nsetup are inserted in order
SetupCall ==
  /\ CanCall /\ nsetup < MaxSetup
  /\ RunCall(Call("Insert", nsetup + 1, 1))
  /\ nsetup' = nsetup + 1
  /\ UNCHANGED <<conc, called, nscan, ncalls>>
  /\ UNCHANGED <<bpmVars, libVars>>

Calls ==
  {Call("Insert", k, v) : k \in Keys, v \in Values}
  \cup {Call(op, k, 0) : k \in Keys, op \in {"Remove", "GetValue", "BeginKey"}}
  \cup {Call("Begin", 0, 0)}

\* two threads call the tree at the same time, one call each
Spawn ==
  /\ CanCall
  /\ conc' = TRUE
  /\ \E c1 \in Calls, c2 \in Calls : th' = [t \in Threads |-> IF t = 1 THEN c1 ELSE c2]
  /\ called' = th'
  /\ UNCHANGED <<tp, root_page_id_, hdr, tpin, tnext, rl, wl, nsetup, nscan, ncalls, amap,
                 unpin0, delfail, ub, race>>
  /\ UNCHANGED <<bpmVars, libVars>>

TreeNext == SeqInsert \/ SeqRemove \/ SeqGetValue \/ SeqScan \/ Undefined_Return(1)
ConcNext == SetupCall \/ Spawn \/ \E t \in Threads : Step(t)

vars == <<bpmVars, libVars, treeVars>>

Init == BPM_Init /\ TreeInit /\ LRU_Idle /\ Hash_Idle

\* the buffer pool under any sequence of calls
SpecBPM == Init /\ [][BPM_Next]_vars

\* the same with clients that write the bytes of the pages they have pinned
SpecBPMData == Init /\ [][BPM_NextData]_vars

InitLRU == BPM_Init /\ TreeInit /\ LRU_Init /\ Hash_Idle

\* the replacer on its own
SpecLRU == InitLRU /\ [][LRU_Next]_vars

InitHash == BPM_Init /\ TreeInit /\ LRU_Idle /\ Hash_Init

\* the hash table on its own
SpecHash == InitHash /\ [][Hash_Next]_vars

\* sequential use of the tree
SpecTree == Init /\ [][TreeNext]_vars

\* concurrent use of the tree
SpecConc == Init /\ [][ConcNext]_vars

\* with every thread scheduled again and again
FairConc == SpecConc /\ \A t \in Threads : WF_vars(Step(t))

(***************************************************************************)
(* Properties of the buffer pool                                           *)
(***************************************************************************)
Resident(p) == \E f \in Frames : pages_[f].page_id = p
FrameOf(p) == CHOOSE f \in Frames : pages_[f].page_id = p
Evictable(r, f) == r.data_[f].present /\ r.data_[f].evictable_
NoVictim == free_list_ = <<>> /\ ~ \E f \in Frames : Evictable(replacer_, f)

\* C1: a frame holding a page with pin_count > 0 is never evictable in the
\* replacer, and the frame Evict would return is never pinned.
C1_PinnedNotEvictable ==
  /\ \A f \in Frames :
        (pages_[f].page_id # INVALID_PAGE_ID /\ pages_[f].pin_count > 0)
          => ~ Evictable(replacer_, f)
  /\ LRUK_Evict(replacer_).ok => pages_[LRUK_Evict(replacer_).frame].pin_count = 0

\* a frame was fetched again and is pinned while another frame is evictable
C1_Witness ==
  \E f, g \in Frames :
     /\ pages_[f].pin_count > 0 /\ Len(replacer_.data_[f].t_) = 2
     /\ pages_[g].page_id # INVALID_PAGE_ID /\ pages_[g].pin_count = 0
     /\ Evictable(replacer_, g)

\* C2: the page table maps page id p to frame f exactly when frame f holds
\* page p (so an evicted or deleted page has no entry), and no two frames hold
\* the same page id.
C2_PageTableExact ==
  /\ \A p \in PageIds, f \in Frames :
        (HT_Find(page_table_, p).found /\ HT_Find(page_table_, p).value = f)
          <=> (pages_[f].page_id = p)
  /\ \A f, g \in Frames :
        (f # g /\ pages_[f].page_id # INVALID_PAGE_ID) => pages_[f].page_id # pages_[g].page_id

\* a page NewPage returned is no longer resident, every frame holds a page and
\* the directory of the page table has doubled
C2_Witness ==
  /\ \E p \in returned : ~ Resident(p) /\ ~ HT_Find(page_table_, p).found
  /\ \A f \in Frames : pages_[f].page_id # INVALID_PAGE_ID
  /\ page_table_.global_depth_ > 0

\* C9: NewPage returns null exactly when the free list is empty and no frame
\* is evictable; otherwise it returns a frame bound to a page id no earlier
\* NewPage returned, with pin_count 1, clean, non-evictable and in the page
\* table.
C9_NewPage ==
  [][NewPgImp =>
       /\ (bpm_ret' = FALSE) <=> NoVictim
       /\ bpm_ret' = TRUE =>
            \E p \in PageIds :
               /\ p \notin returned /\ returned' = returned \cup {p}
               /\ \E f \in Frames :
                    /\ pages_'[f].page_id = p
                    /\ pages_'[f].pin_count = 1
                    /\ pages_'[f].is_dirty = FALSE
                    /\ ~ Evictable(replacer_', f)
                    /\ HT_Find(page_table_', p) = [found |-> TRUE, value |-> f]
  ]_vars

\* one NewPage returned null and a later one returned a page by evicting
C9_Witness ==
  /\ next_page_id_ > Cardinality(returned)
  /\ Cardinality(returned) > PoolSize
  /\ bpm_ret = TRUE
  /\ Resident(next_page_id_ - 1)

\* C10: FetchPage of a resident page adds exactly one to its pin count and
\* changes no other frame, the free list or the page table; on a miss it
\* returns null exactly when no frame is free or evictable, and otherwise
\* makes the page resident with pin_count 1.
C10_FetchPage ==
  [][\A p \in PageIds : FetchPgImp(p) =>
       IF Resident(p)
         THEN /\ bpm_ret' = TRUE
              /\ pages_' = [pages_ EXCEPT ![FrameOf(p)].pin_count = @ + 1]
              /\ free_list_' = free_list_
              /\ page_table_' = page_table_
         ELSE /\ (bpm_ret' = FALSE) <=> NoVictim
              /\ bpm_ret' = TRUE =>
                   \E f \in Frames :
                      /\ pages_'[f].page_id = p
                      /\ pages_'[f].pin_count = 1
                      /\ HT_Find(page_table_', p) = [found |-> TRUE, value |-> f]
  ]_vars

\* a resident page was fetched a second time, and an evicted page is back
C10_Witness ==
  /\ \E f \in Frames : pages_[f].pin_count = 2
  /\ bpm_ret = TRUE
  /\ Cardinality(returned) > PoolSize

ResidentIn(pg, p) == \E f \in Frames : pg[f].page_id = p
FrameIn(pg, p) == CHOOSE f \in Frames : pg[f].page_id = p
Occurrences(seq, x) == Cardinality({i \in 1 .. Len(seq) : seq[i] = x})

\* C11: UnpinPage returns false and changes nothing when the page is not
\* resident or its pin count is already 0; otherwise it returns true, takes
\* exactly one from the pin count, leaves every other frame alone and makes
\* the frame evictable exactly when the count reached 0.  No pin count is
\* ever negative.
C11_UnpinPage ==
  /\ [](\A f \in Frames : pages_[f].pin_count >= 0)
  /\ [][\A p \in PageIds, d \in BOOLEAN : UnpinPgImp(p, d) =>
          IF ~ Resident(p) \/ pages_[FrameOf(p)].pin_count = 0
            THEN /\ bpm_ret' = FALSE
                 /\ UNCHANGED <<pages_, page_table_, replacer_, free_list_, next_page_id_, disk>>
            ELSE /\ bpm_ret' = TRUE
                 /\ pages_'[FrameOf(p)].page_id = p
                 /\ pages_'[FrameOf(p)].pin_count = pages_[FrameOf(p)].pin_count - 1
                 /\ \A g \in Frames \ {FrameOf(p)} : pages_'[g] = pages_[g]
                 /\ Evictable(replacer_', FrameOf(p)) <=> (pages_'[FrameOf(p)].pin_count = 0)
                 /\ UNCHANGED <<page_table_, free_list_>>
     ]_vars

\* one page was unpinned down to 0 and is evictable, another was pinned twice
\* and unpinned once, and the last call returned false
C11_Witness ==
  /\ bpm_ret = FALSE
  /\ \E f, g \in Frames :
        /\ pages_[f].page_id # INVALID_PAGE_ID /\ pages_[f].pin_count = 0
        /\ Evictable(replacer_, f)
        /\ pages_[g].pin_count = 1 /\ Len(replacer_.data_[g].t_) = 2
        /\ ~ Evictable(replacer_, g)

\* C12: DeletePage returns true and changes nothing when the page is not
\* resident, returns false and changes nothing when it is resident and pinned,
\* and otherwise returns true with the page out of the page table, the
\* frame's replacer history dropped, the frame reset and on the free list
\* exactly once.
C12_DeletePage ==
  [][\A p \in PageIds : DeletePgImp(p) =>
       IF ~ Resident(p)
         THEN /\ bpm_ret' = TRUE
              /\ UNCHANGED <<pages_, page_table_, replacer_, free_list_, next_page_id_, disk>>
       ELSE IF pages_[FrameOf(p)].pin_count > 0
         THEN /\ bpm_ret' = FALSE
              /\ UNCHANGED <<pages_, page_table_, replacer_, free_list_, next_page_id_, disk>>
       ELSE /\ bpm_ret' = TRUE
            /\ ~ HT_Find(page_table_', p).found
            /\ replacer_'.data_[FrameOf(p)] = NoEntry
            /\ ~ replacer_'.fault
            /\ pages_'[FrameOf(p)].page_id = INVALID_PAGE_ID
            /\ pages_'[FrameOf(p)].is_dirty = FALSE
            /\ pages_'[FrameOf(p)].pin_count = 0
            /\ Occurrences(free_list_, FrameOf(p)) = 0
            /\ Occurrences(free_list_', FrameOf(p)) = 1
            /\ \A g \in Frames \ {FrameOf(p)} :
                  /\ pages_'[g] = pages_[g]
                  /\ Occurrences(free_list_', g) = Occurrences(free_list_, g)
  ]_vars

\* every frame is free again after deletions, frame 0 not at the head of the
\* free list any more
C12_Witness ==
  /\ bpm_ret = TRUE
  /\ returned # {}
  /\ Len(free_list_) = PoolSize
  /\ Head(free_list_) # 0

\* the bytes of page p: those of its frame when it is resident, else those on
\* disk
Content(pg, d, p) == IF ResidentIn(pg, p) THEN pg[FrameIn(pg, p)].data ELSE d[p]

\* the step evicts page p (a deletion lengthens the free list instead)
Evicts(p) ==
  /\ Resident(p)
  /\ ~ ResidentIn(pages_', p)
  /\ Len(free_list_') <= Len(free_list_)

\* C13: a dirty page that NewPage or FetchPage evicts is written to disk
\* under its own page id with the bytes of its frame; and no call of the
\* buffer pool other than a deletion of the page changes the bytes of a page
\* that is dirty or not resident, so that a later FetchPage finds the bytes of
\* the last write made while it was pinned.
C13_DirtyWriteBack ==
  [][\A p \in PageIds :
       /\ (Evicts(p) /\ pages_[FrameOf(p)].is_dirty) =>
             /\ disk_writes' = <<p>>
             /\ disk'[p] = pages_[FrameOf(p)].data
       /\ ( /\ ~ Resident(p) \/ pages_[FrameOf(p)].is_dirty
            /\ ~ DeletePgImp(p)
            /\ ~ \E d \in 1 .. MaxData : WriteData(p, d) ) =>
             Content(pages_', disk', p) = Content(pages_, disk, p)
       /\ (FetchPgImp(p) /\ bpm_ret') =>
             pages_'[FrameIn(pages_', p)].data = Content(pages_, disk, p)
  ]_vars

\* page 0 was written, unpinned dirty and evicted with a write to disk
C13_Witness ==
  /\ ~ Resident(0)
  /\ disk[0] # 0
  /\ disk_writes = <<0>>

\* C14: UnpinPage(p, true) leaves the page dirty, and a dirty page stays
\* dirty through FetchPage(p), UnpinPage(p, false) and every other call for
\* as long as it stays resident and is not written to disk.
C14_DirtySticks ==
  [][\A p \in PageIds :
       /\ (UnpinPgImp(p, TRUE) /\ bpm_ret') => pages_'[FrameOf(p)].is_dirty
       /\ ( /\ Resident(p) /\ pages_[FrameOf(p)].is_dirty
            /\ FetchPgImp(p) \/ UnpinPgImp(p, FALSE) ) =>
             /\ pages_'[FrameOf(p)].page_id = p
             /\ pages_'[FrameOf(p)].is_dirty
       /\ ( /\ Resident(p) /\ pages_[FrameOf(p)].is_dirty
            /\ ResidentIn(pages_', p)
            /\ Occurrences(disk_writes', p) = 0 ) =>
             pages_'[FrameIn(pages_', p)].is_dirty
  ]_vars

\* a dirty page with two recorded accesses is pinned once: it was fetched
\* again and unpinned around the unpin that made it dirty
C14_Witness ==
  \E f \in Frames :
     /\ pages_[f].is_dirty /\ pages_[f].pin_count = 1
     /\ Len(replacer_.data_[f].t_) = 2
     /\ bpm_ret = TRUE /\ disk_writes = <<>>

\* C15: FlushAllPages passes to WritePage exactly the resident pages, each
\* once, never INVALID_PAGE_ID; it leaves every page clean with its bytes on
\* disk and changes no pin count and nothing in the replacer.
C15_FlushAllResident ==
  [][FlushAllPgsImp =>
       /\ Occurrences(disk_writes', INVALID_PAGE_ID) = 0
       /\ \A p \in PageIds :
             Occurrences(disk_writes', p) = (IF Resident(p) THEN 1 ELSE 0)
       /\ \A f \in Frames :
             /\ pages_'[f] = [pages_[f] EXCEPT !.is_dirty = FALSE]
             /\ pages_[f].page_id # INVALID_PAGE_ID => disk'[pages_[f].page_id] = pages_[f].data
       /\ replacer_' = replacer_
  ]_vars

(***************************************************************************)
(* Properties of the replacer                                              *)
(***************************************************************************)
EvictableFrames(r) == {f \in DOMAIN r.data_ : Evictable(r, f)}
History(r, f) == r.data_[f].t_

\* C16: Evict returns false exactly when no frame is evictable (and then
\* changes nothing); otherwise the victim is an evictable frame, it has fewer
\* than k recorded accesses whenever some evictable frame has, and when every
\* evictable frame has k accesses it is one whose k-th most recent access is
\* the oldest.
C16_EvictMaxKDistance ==
  [][LRU_Evict =>
       LET E == EvictableFrames(lru)
           v == lru_ret'.frame
       IN /\ lru_ret'.ok <=> E # {}
          /\ E = {} => lru' = lru
          /\ E # {} =>
               /\ v \in E
               /\ (\E f \in E : Len(History(lru, f)) < lru.k_) => Len(History(lru, v)) < lru.k_
               /\ (\A f \in E : Len(History(lru, f)) = lru.k_) =>
                     \A f \in E : Back(History(lru, v)) <= Back(History(lru, f))
  ]_vars

\* Evict has just passed over frame 0, evictable with k >= 2 accesses, and
\* returned a later frame
C16_Witness ==
  /\ lru_ret.ok /\ lru_ret.frame # 0
  /\ lru.k_ >= 2
  /\ Evictable(lru, 0) /\ Len(History(lru, 0)) = lru.k_

\* C17: when every evictable frame has fewer than k recorded accesses, Evict
\* returns the one whose earliest recorded access is the oldest.
C17_EarliestAccessFirst ==
  [][LRU_Evict =>
       LET E == EvictableFrames(lru)
       IN (E # {} /\ \A f \in E : Len(History(lru, f)) < lru.k_) =>
            \A f \in E : Back(History(lru, lru_ret'.frame)) <= Back(History(lru, f))
  ]_vars

\* C18: Size() is the number of tracked frames whose evictable flag is set;
\* SetEvictable(f, b) on a tracked frame sets the flag to b and changes the
\* size by one exactly when the flag changes, and is a no-op otherwise.
C18_SizeCountsEvictable ==
  /\ [](LRUK_Size(lru) = Cardinality(EvictableFrames(lru)))
  /\ [][\A f \in ReplacerFrameIds, b \in BOOLEAN :
          (LRU_SetEvictable(f, b) /\ lru.data_[f].present) =>
             /\ lru'.data_[f].evictable_ = b
             /\ LRUK_Size(lru') - LRUK_Size(lru) =
                  (IF lru.data_[f].evictable_ = b THEN 0 ELSE IF b THEN 1 ELSE 0 - 1)
             /\ lru.data_[f].evictable_ = b => lru' = lru
     ]_vars

\* two frames are evictable, a third is tracked and not evictable
C18_Witness ==
  /\ LRUK_Size(lru) = 2
  /\ Cardinality(EvictableFrames(lru)) = 2
  /\ \E f \in ReplacerFrameIds : lru.data_[f].present /\ ~ lru.data_[f].evictable_

\* C19: the first RecordAccess of an untracked frame starts a history of one
\* access, not evictable; SetEvictable only changes the flag of a tracked
\* frame; Remove of an evictable frame and Evict leave the frame untracked
\* with no history; Remove of an untracked frame changes nothing; Remove of a
\* tracked frame that is not evictable fails its assertion and drops nothing.
C19_FrameStateMachine ==
  [][/\ \A f \in ReplacerFrameIds : LRU_RecordAccess(f) =>
          IF ~ lru.data_[f].present
            THEN lru'.data_[f] = [present |-> TRUE, t_ |-> <<lru.current_timestamp_>>,
                                  evictable_ |-> FALSE]
            ELSE /\ lru'.data_[f].present
                 /\ lru'.data_[f].evictable_ = lru.data_[f].evictable_
     /\ \A f \in ReplacerFrameIds, b \in BOOLEAN :
          (LRU_SetEvictable(f, b) /\ lru.data_[f].present) =>
             lru'.data_[f] = [lru.data_[f] EXCEPT !.evictable_ = b]
     /\ \A f \in ReplacerFrameIds : LRU_Remove(f) =>
          IF ~ lru.data_[f].present THEN lru' = lru
          ELSE IF lru.data_[f].evictable_
            THEN lru'.data_[f] = NoEntry /\ ~ lru'.fault
            ELSE lru'.fault /\ lru'.data_ = lru.data_
     /\ (LRU_Evict /\ lru_ret'.ok) => lru'.data_[lru_ret'.frame] = NoEntry
  ]_vars

\* the access of time 0 has been dropped by Remove or Evict, and the only
\* tracked frame has a fresh history that starts later and is not evictable
C19_Witness ==
  /\ lru.k_ >= 2
  /\ ~ lru.fault
  /\ \E f \in ReplacerFrameIds :
        /\ lru.data_[f].present /\ ~ lru.data_[f].evictable_
        /\ Len(History(lru, f)) = 1 /\ History(lru, f)[1] >= 1
        /\ \A g \in ReplacerFrameIds \ {f} : ~ lru.data_[g].present

(***************************************************************************)
(* Properties of the hash table                                            *)
(***************************************************************************)
\* the buckets the directory points to, and the places <<bucket, position>>
\* where key k is stored
LiveBuckets(t) == {t.dir_[i] : i \in 1 .. Len(t.dir_)}
PlacesOf(t, k) ==
  {hi \in LiveBuckets(t) \X (1 .. t.bucket_size_) :
     hi[2] <= Len(t.bk[hi[1]].list_) /\ t.bk[hi[1]].list_[hi[2]][1] = k}

\* Find agrees with the map of the calls made so far, every stored key is in
\* the bucket its hash resolves to, and no key is stored twice
FindIsMap(t) ==
  /\ \A k \in HashKeys :
        HT_Find(t, k) = (IF hmap[k] = 0 THEN [found |-> FALSE, value |-> 0]
                                        ELSE [found |-> TRUE, value |-> hmap[k]])
  /\ \A k \in HashKeys :
        /\ Cardinality(PlacesOf(t, k)) <= 1
        /\ \A hi \in PlacesOf(t, k) : t.dir_[IndexOf(t, k) + 1] = hi[1]
  /\ Len(t.dir_) = Pow2(t.global_depth_)

\* C20: every Insert returns, and after any sequence of Insert and Remove
\* Find(k) is (true, v) exactly when k was inserted and not removed since,
\* with v the value of the last Insert(k, .); no key is lost or stored twice
\* and every stored key lies in the bucket at dir[hash(k) & (2^global_depth - 1)].
C20_HashIsMap == ~ table.looping /\ FindIsMap(table)

\* the same for the calls that return
FindIsMapUnlessLooping == table.looping \/ FindIsMap(table)

(***************************************************************************)
(* Properties of the B+Tree                                                *)
(***************************************************************************)
\* the transition is GetValue(k) called and run by thread 1 up to its return
GetValueReturns(k) ==
  th'[1].op = "GetValue" /\ CanCall /\ RunCall(Call("GetValue", k, 0)) /\ th'[1].pc = "idle"

\* the leaves below page p
RECURSIVE LeavesBelow(_)
LeavesBelow(p) ==
  IF tp[p].ptype = "leaf" THEN {p}
  ELSE IF tp[p].ptype = "internal"
    THEN UNION {LeavesBelow(tp[p].items[i][2]) : i \in 1 .. Len(tp[p].items)}
  ELSE {}

\* the places of key k in the tree
KeyPlaces(k) ==
  IF root_page_id_ = INVALID_PAGE_ID THEN {}
  ELSE {pi \in LeavesBelow(root_page_id_) \X (1 .. LeafMaxSize) :
          pi[2] <= Len(tp[pi[1]].items) /\ tp[pi[1]].items[pi[2]][1] = k}

AllReturned == conc /\ \A t \in Threads : th[t].pc = "idle"

\* C3: run sequentially, every GetValue(k) returns the value of the last
\* successful Insert(k, .) not followed by Remove(k), and not-found (0) when
\* there is none; this includes a GetValue whose behaviour is undefined
\* because it is called before any Insert.
C3_RoundTrip ==
  [][/\ \A k \in Keys : GetValueReturns(k) => th'[1].ret = amap[k]
     /\ Undefined_Return(1) => th'[1].ret = amap[th[1].key]
  ]_vars

\* the same for the calls of GetValue that come after a successful Insert
GetValueAfterInsert ==
  [][\A k \in Keys : GetValueReturns(k) => th'[1].ret = amap[k]]_vars

\* C4: a thread that is not inside a call holds no latch, on the header page
\* or on any tree page.
C4_NoLatchOnReturn ==
  \A t \in Threads : th[t].pc = "idle" => \A p \in AllPages : rl[p][t] = 0 /\ wl[p] # t

\* C5: when no call is running every page has the pin count it had before
\* the calls (0), and no UnpinPage of the tree has found a pin count of 0.
C5_PinsBalanced ==
  /\ ~ unpin0
  /\ th[1].pc = "idle" => \A p \in AllPages : tpin[p] = 0

\* thread u is inside a call and its next step does not have to wait
CanStep(u) == th[u].pc \notin {"idle", "ub"} /\ Ready(Mem(u), u)

\* the call of thread t waits for a latch that nothing will release: no
\* thread can take a step any more
Stuck(t) ==
  /\ conc /\ ~ ub
  /\ th[t].pc # "idle"
  /\ \A u \in Threads : ~ CanStep(u)

\* C6: no concurrent call is left waiting for ever for a page latch: whenever
\* a call has not returned, some thread can take a step (so that under fair
\* scheduling every call returns).
C6_NoCallStuck == \A t \in Threads : ~ Stuck(t)

\* C7: no page is written by a thread that does not hold its W-latch, written
\* while another thread holds a latch on it, or read by a thread that holds no
\* latch on it.
C7_AccessUnderLatch == race = {}

\* C8: when two concurrent calls Insert(k, .) have returned, k is in the tree
\* exactly once, and exactly one of them returned true if k was not in the
\* tree before (also when the tree was empty when they started).
C8_OneInsertWins ==
  \A k \in Keys :
    (AllReturned /\ \A t \in Threads : called[t].op = "Insert" /\ called[t].key = k)
      => (k > nsetup => th[1].ret + th[2].ret = 1) /\ Cardinality(KeyPlaces(k)) = 1

\* both calls inserted key 1 into a tree that was empty when they started,
\* each of them allocated a root page, and both have returned
C8_Witness ==
  /\ AllReturned
  /\ nsetup = 0
  /\ \A t \in Threads : called[t].op = "Insert" /\ called[t].key = 1
  /\ tnext = 3
  /\ th[1].ret + th[2].ret = 1

(***************************************************************************)
(* Properties of the hash directory                                        *)
(***************************************************************************)
\* the directory indices of table t
DirIndices(t) == 0 .. Len(t.dir_) - 1

\* the bucket directory index i of table t points to
DirBucket(t, i) == t.bk[t.dir_[i + 1]]

\* C21: the directory has 2^global_depth entries, no bucket is deeper than
\* the directory, and two indices point to the same bucket exactly when they
\* agree on the low local-depth bits of that bucket.
C21_DirectoryShape ==
  /\ Len(table.dir_) = Pow2(table.global_depth_)
  /\ \A i \in DirIndices(table) : DirBucket(table, i).depth_ <= table.global_depth_
  /\ \A i, j \in DirIndices(table) :
       (table.dir_[i + 1] = table.dir_[j + 1])
         <=> (i % Pow2(DirBucket(table, i).depth_) = j % Pow2(DirBucket(table, i).depth_))

\* the directory has doubled twice and one bucket is shared by two indices
C21_Witness ==
  /\ table.global_depth_ = 2
  /\ table.num_buckets_ = 3
  /\ \E i \in DirIndices(table) : DirBucket(table, i).depth_ = 1

\* the local depths of table t, by directory index
LocalDepths(t) == [i \in DirIndices(t) |-> DirBucket(t, i).depth_]

\* C22: Insert(k, v) of a key that is present overwrites its value in place,
\* also when its bucket is full: no split, with the directory, the global
\* depth, the local depths and the number of buckets unchanged.
C22_UpsertInPlace ==
  [][\A k \in HashKeys, v \in HashValues :
       (Hash_Insert(k, v) /\ HT_Find(table, k).found)
         => /\ ~ table'.looping
            /\ HT_Find(table', k) = [found |-> TRUE, value |-> v]
            /\ table'.global_depth_ = table.global_depth_
            /\ table'.num_buckets_ = table.num_buckets_
            /\ table'.dir_ = table.dir_
            /\ LocalDepths(table') = LocalDepths(table)
    ]_vars

\* the same for a key whose bucket has room
UpsertInPlaceWithRoom ==
  [][\A k \in HashKeys, v \in HashValues :
       (Hash_Insert(k, v) /\ HT_Find(table, k).found /\ ~ IsFull(BucketOf(table, k)))
         => /\ ~ table'.looping
            /\ HT_Find(table', k) = [found |-> TRUE, value |-> v]
            /\ table'.global_depth_ = table.global_depth_
            /\ table'.num_buckets_ = table.num_buckets_
            /\ table'.dir_ = table.dir_
            /\ LocalDepths(table') = LocalDepths(table)
    ]_vars

(***************************************************************************)
(* Properties of the B+Tree's operations, one caller                       *)
(***************************************************************************)
\* the transition is op(k, v) called and run by thread 1 (the caller keeps
\* the name of its call)
Runs(op, k, v) == th'[1].op = op /\ CanCall /\ RunCall(Call(op, k, v))

\* the pages of the tree, the root page id and its record are as before
TreeUnchanged == tp' = tp /\ root_page_id_' = root_page_id_ /\ hdr' = hdr

\* the leaves of the tree
Leaves == IF root_page_id_ = INVALID_PAGE_ID THEN {} ELSE LeavesBelow(root_page_id_)

\* C23: Insert(k, v) of a key that is in the tree returns false and leaves
\* every page, the leaf chain and the root page id as they were, whether or
\* not the leaf of k is full.
C23_DuplicateInsert ==
  [][\A k \in Keys, v \in Values :
       (KeyPlaces(k) # {} /\ Runs("Insert", k, v))
         => TreeUnchanged /\ (th'[1].pc = "idle" => th'[1].ret = 0)
    ]_vars

\* an Insert has returned false from a tree whose only leaf is full
C23_Witness ==
  /\ th[1].pc = "idle" /\ th[1].op = "Insert" /\ th[1].ret = 0
  /\ root_page_id_ # INVALID_PAGE_ID
  /\ tp[root_page_id_].ptype = "leaf"
  /\ GetSize(tp[root_page_id_]) = LeafMaxSize

\* C24: Remove(k) of a key that is not in the tree changes nothing: every
\* page, the leaf chain, the root page id and its record are as before, and
\* no page is deleted, also when the leaf that would hold k is a non-root
\* leaf at its minimum size.
C24_RemoveAbsent ==
  [][\A k \in Keys : (KeyPlaces(k) = {} /\ Runs("Remove", k, 0)) => TreeUnchanged]_vars

\* the leaf the descent for key k reaches from page p
RECURSIVE LeafOf(_, _)
LeafOf(p, k) ==
  IF tp[p].ptype = "internal" /\ tp[p].items # <<>> THEN LeafOf(InternalLookup(tp[p], k), k)
  ELSE p

\* the leaf of k has more entries than its minimum size, or is the root
RemoveSafe(k) ==
  /\ root_page_id_ # INVALID_PAGE_ID
  /\ LET leaf == tp[LeafOf(root_page_id_, k)]
     IN IsRootPage(leaf) \/ GetSize(leaf) > GetMinSize(leaf)

\* the same for a key whose leaf is the root or above its minimum size, and
\* for the empty tree
RemoveAbsentFromSafeLeaf ==
  [][\A k \in Keys :
       (KeyPlaces(k) = {} /\ (root_page_id_ = INVALID_PAGE_ID \/ RemoveSafe(k))
          /\ Runs("Remove", k, 0)) => TreeUnchanged]_vars

\* the leaves of the tree that are not its root
NonRootLeaves == {p \in Leaves : ~ IsRootPage(tp[p])}

\* C25: when no call is running, every non-root leaf holds at least min_size
\* and at most max_size - 1 entries.
C25_LeafSizeBounds ==
  th[1].pc = "idle" =>
    \A p \in NonRootLeaves :
      GetMinSize(tp[p]) <= GetSize(tp[p]) /\ GetSize(tp[p]) <= tp[p].max_size - 1

\* what the leaves keep: a non-root leaf is never empty and never holds more
\* than max_size entries
LeafSizeWithinPage ==
  th[1].pc = "idle" =>
    \A p \in NonRootLeaves : 1 <= GetSize(tp[p]) /\ GetSize(tp[p]) <= tp[p].max_size

\* the keys in the leaves of the tree
TreeKeys == {k \in Keys : KeyPlaces(k) # {}}

\* the elements of a set of keys in ascending order
RECURSIVE Ascending(_)
Ascending(S) == IF S = {} THEN <<>> ELSE <<Min(S)>> \o Ascending(S \ {Min(S)})

\* C26: in a tree that Insert and Remove calls have built, a scan from
\* Begin() to End() visits exactly the keys of the tree, each once, in
\* ascending order (also when every key has been removed again).
C26_ScanVisitsKeys ==
  [][(root_page_id_ # INVALID_PAGE_ID /\ Runs("Begin", 0, 0))
       => th'[1].pc = "idle" /\ th'[1].seen = Ascending(TreeKeys)]_vars

\* the same for a tree that holds at least one key
ScanOfNonEmptyTree ==
  [][(TreeKeys # {} /\ Runs("Begin", 0, 0))
       => th'[1].pc = "idle" /\ th'[1].seen = Ascending(TreeKeys)]_vars

\* the keys of the tree that are >= k
KeysFrom(k) == {x \in TreeKeys : x >= k}

\* C27: Begin(k) is positioned on the first entry of the tree whose key is
\* >= k, End() if there is none: the scan from it visits the keys >= k in
\* ascending order, first the least of them.
C27_BeginAtKey ==
  [][\A k \in Keys :
       (root_page_id_ # INVALID_PAGE_ID /\ Runs("BeginKey", k, 0))
         => th'[1].pc = "idle" /\ th'[1].seen = Ascending(KeysFrom(k))]_vars

\* the same when the leaf the descent for k reaches holds a key >= k
BeginAtKeyInsideLeaf ==
  [][\A k \in Keys :
       (/\ root_page_id_ # INVALID_PAGE_ID
        /\ GePos(tp[LeafOf(root_page_id_, k)].items, k) # {}
        /\ Runs("BeginKey", k, 0))
         => th'[1].pc = "idle" /\ th'[1].seen = Ascending(KeysFrom(k))]_vars

(***************************************************************************)
(* Properties of the latch protocol                                        *)
(***************************************************************************)
\* thread t holds the W-latch of the header page and of every page of the
\* path from the root to its leaf, which its lock queue lists in that order
HoldsWritePath(t) ==
  LET locked == th[t].locked
  IN /\ Len(locked) >= 2
     /\ locked[1] = HEADER_PAGE_ID
     /\ locked[2] = root_page_id_
     /\ \A i \in 1 .. Len(locked) : wl[locked[i]] = t
     /\ \A i \in 3 .. Len(locked) : ValueIndex(tp[locked[i - 1]], locked[i]) >= 0
     /\ IsLeafPage(tp[locked[Len(locked)]])

\* what a structural change changes: the root page id, the pages allocated,
\* the internal pages, and of every leaf its parent and its successor
Shape ==
  <<root_page_id_, tnext,
    [p \in TreePages |->
       IF IsLeafPage(tp[p]) THEN <<"leaf", tp[p].parent, tp[p].next>> ELSE tp[p]]>>

\* thread t takes a step of a concurrent call that performs a split, a
\* redistribution, a merge or a change of the root page id (the deletion of
\* the pages a merge has emptied comes after it)
StructuralStep(t) ==
  /\ conc /\ th'[t] # th[t]
  /\ th[t].pc # "rm_delete"
  /\ Shape' # Shape

\* C28: a writer that has found its leaf holds the W-latches of the header
\* page and of the whole path, and every split, redistribution, merge and
\* change of the root page id is performed by a thread that holds them, so
\* that no two threads change the structure at the same time.
C28_WritersHoldPath ==
  /\ [](\A t \in Threads : th[t].pc \in {"ins_body", "rm_body"} => HoldsWritePath(t))
  /\ [][\A t \in Threads : StructuralStep(t) => HoldsWritePath(t)]_vars

\* the same for the structural changes of InsertIntoLeaf and Remove, without
\* the creation of the first root by Insert
WritersHoldPathBelowInsert ==
  /\ [](\A t \in Threads : th[t].pc \in {"ins_body", "rm_body"} => HoldsWritePath(t))
  /\ [][\A t \in Threads :
         (StructuralStep(t) /\ th[t].pc \notin {"snt_new", "snt_init"}) => HoldsWritePath(t)]_vars

\* the latches thread t holds: R-latches counted, W-latches as a set
RHeld(t) == {p \in AllPages : rl[p][t] > 0}
WHeld(t) == {p \in AllPages : wl[p] = t}

\* thread t is in FindLeafPage for GetValue, Begin or Begin(key)
Descending(t) ==
  th[t].op \in {"GetValue", "Begin", "BeginKey"} /\ th[t].pc \in {"flp_latch_hdr", "flp_latch"}

\* FindLeafPage has returned to a reader
ReaderAtLeaf(t) == th[t].pc \in {"gv_body", "begin_ret"}

\* C29: a reader never holds a W-latch and never more than two latches; in
\* the descent it holds at most the latch of the page it has reached (the
\* header first), taking the child's latch before giving that one up, and
\* when FindLeafPage returns it holds exactly the R-latch of the leaf.
C29_ReadCrabbing ==
  /\ [](\A t \in Threads :
         (conc /\ called[t].op \in {"GetValue", "Begin", "BeginKey"})
           => /\ WHeld(t) = {}
              /\ \A p \in AllPages : rl[p][t] <= 1
              /\ Cardinality(RHeld(t)) <= 2
              /\ (ReaderAtLeaf(t) => RHeld(t) = {th[t].cur} /\ IsLeafPage(tp[th[t].cur])))
  /\ [][\A t \in Threads :
         (conc /\ Descending(t) /\ th'[t] # th[t] /\ th'[t].pc # "ub")
           => \* the page above is given up in the step that latches the next
              /\ RHeld(t) \subseteq {HEADER_PAGE_ID, th[t].cur}
              /\ RHeld(t)' = {IF th[t].pc = "flp_latch_hdr" THEN HEADER_PAGE_ID ELSE th[t].nxtp}
    ]_vars

\* a concurrent reader has come down through an internal page and holds the
\* R-latch of a leaf below the root, and nothing else
C29_Witness ==
  \E t \in Threads :
    /\ conc /\ called[t].op \in {"GetValue", "Begin", "BeginKey"}
    /\ ReaderAtLeaf(t)
    /\ ~ IsRootPage(tp[th[t].cur])
    /\ RHeld(t) = {th[t].cur}

(***************************************************************************)
(* Properties of the leaf split                                            *)
(***************************************************************************)
\* the keys of page p, in the order of its slots
PageKeys(pg) == [i \in 1 .. Len(pg.items) |-> pg.items[i][1]]
KeySet(pg) == {pg.items[i][1] : i \in 1 .. Len(pg.items)}

\* the keys of a page are strictly ascending
Sorted(pg) == \A i \in 1 .. Len(pg.items) - 1 : pg.items[i][1] < pg.items[i + 1][1]

\* the transition is an Insert(k, v) of a new key that finds its leaf full
\* and returns
SplitsLeaf(k, v) ==
  /\ root_page_id_ # INVALID_PAGE_ID
  /\ KeyPlaces(k) = {}
  /\ GetSize(tp[LeafOf(root_page_id_, k)]) = tp[LeafOf(root_page_id_, k)].max_size
  /\ Runs("Insert", k, v)
  /\ th'[1].pc = "idle"

\* what the split of leaf old (page old_id) by Insert(k, v) leaves behind:
\* the new leaf is page new_id
SplitResult(old_id, new_id, k, v) ==
  LET old == tp[old_id]
      kept == tp'[old_id]
      new == tp'[new_id]
      moved == GetSize(old) - GetMinSize(old)
  IN /\ th'[1].ret = 1
     /\ tnext' > new_id
     /\ IsLeafPage(new) /\ IsLeafPage(kept)
     \* exactly size - min_size entries, the highest, have moved
     /\ KeySet(new) \ {k} = {PageKeys(old)[i] : i \in GetSize(old) - moved + 1 .. GetSize(old)}
     /\ KeySet(kept) \ {k} = {PageKeys(old)[i] : i \in 1 .. GetSize(old) - moved}
     /\ GetSize(kept) + GetSize(new) = GetSize(old) + 1
     \* the new leaf follows the original in the chain
     /\ new.next = old.next /\ kept.next = new_id
     \* the new entry is in the half its key belongs to
     /\ (k \in KeySet(new)) <=> (k > PageKeys(old)[GetSize(old) - moved + 1])
     /\ <<k, v>> \in {kept.items[i] : i \in 1 .. GetSize(kept)}
                       \cup {new.items[i] : i \in 1 .. GetSize(new)}
     /\ Sorted(kept) /\ Sorted(new)
     /\ \A x \in KeySet(kept), y \in KeySet(new) : x < y
     \* the separator in the parent is the first key of the new leaf
     /\ \E p \in TreePages :
          /\ tp'[p].ptype = "internal"
          /\ \E i \in 2 .. Len(tp'[p].items) : tp'[p].items[i][1] = KeyAt(new, 0)

\* C30: an Insert that finds its leaf full splits it: size - min_size highest
\* entries move to a new leaf linked directly after the original, the new
\* entry goes to the half its key belongs to, both leaves are sorted with
\* the original's keys below the new leaf's, and the separator handed to the
\* parent is the first key of the new leaf.
C30_LeafSplit ==
  [][\A k \in Keys, v \in Values :
       SplitsLeaf(k, v) => SplitResult(LeafOf(root_page_id_, k), tnext, k, v)]_vars

\* the fourth Insert has split the first leaf into pages 1 and 2 under a new
\* root
C30_Witness ==
  /\ th[1].pc = "idle" /\ th[1].op = "Insert" /\ th[1].ret = 1
  /\ ncalls = 4 /\ tnext = 4
  /\ tp[1].next = 2
  /\ root_page_id_ = 3

\* the keys on the leaves below page p
KeysBelow(p) == UNION {KeySet(tp[l]) : l \in LeavesBelow(p)}

\* the root after a split of the root old: a new internal page n whose slot 0
\* points to old and whose slot 1 holds the separator and the new sibling
NewRootOver(old, n) ==
  /\ tp[n] = NoPage
  /\ tp'[n].ptype = "internal" /\ IsRootPage(tp'[n])
  /\ GetSize(tp'[n]) = 2
  /\ ValueAt(tp'[n], 0) = old
  /\ \E sib \in TreePages, sep \in Keys :
       /\ tp'[n].items[2] = <<sep, sib>>
       /\ tp[sib] = NoPage /\ sib # n
       /\ tp'[sib].ptype = tp[old].ptype
       /\ tp'[old].parent = n /\ tp'[sib].parent = n
       /\ \A x \in KeysBelow(old)' : x < sep
       /\ \A x \in KeysBelow(sib)' : x >= sep
       /\ IsLeafPage(tp'[sib]) => sep = KeyAt(tp'[sib], 0)
  /\ hdr' = [present |-> TRUE, root |-> n]

\* the tree after Insert(k, 1), ..., Insert(n, 1), one call after the other
RECURSIVE InsertAscending(_, _, _)
InsertAscending(M, k, n) ==
  IF k > n THEN M
  ELSE InsertAscending(Run([M EXCEPT !.me = Call("Insert", k, 1)], 1), k + 1, n)

\* a root with the single separator 3 over the leaves [1, 2] and [3, 4, 5]
RootOverTwoLeaves(pages, root) ==
  /\ pages[root].ptype = "internal" /\ Len(pages[root].items) = 2
  /\ pages[root].items[2][1] = 3
  /\ LET l == pages[root].items[1][2]
         r == pages[root].items[2][2]
     IN /\ IsLeafPage(pages[l]) /\ IsLeafPage(pages[r])
        /\ PageKeys(pages[l]) = <<1, 2>> /\ PageKeys(pages[r]) = <<3, 4, 5>>
        /\ pages[l].next = r /\ pages[r].next = INVALID_PAGE_ID
        /\ pages[l].parent = root /\ pages[r].parent = root

RECURSIVE ChainFrom(_, _)
ChainFrom(p, fuel) ==
  IF p = INVALID_PAGE_ID \/ fuel = 0 THEN <<>>
  ELSE IF ~ IsLeafPage(tp[p]) THEN <<p>>
  ELSE <<p>> \o ChainFrom(tp[p].next, fuel - 1)

LeafChain ==
  IF root_page_id_ = INVALID_PAGE_ID THEN <<>>
  ELSE ChainFrom(LeafOf(root_page_id_, 0), MaxTreePages + 1)

RECURSIVE ChainKeys(_, _)
ChainKeys(chain, i) ==
  IF i > Len(chain) THEN <<>> ELSE PageKeys(tp[chain[i]]) \o ChainKeys(chain, i + 1)

\* the pages an internal page of the tree points to
RECURSIVE ChildrenBelow(_)
ChildrenBelow(p) ==
  IF tp[p].ptype = "internal"
    THEN UNION {{tp[p].items[i][2]} \cup ChildrenBelow(tp[p].items[i][2]) :
                  i \in 1 .. Len(tp[p].items)}
  ELSE {}

\* Remove(k) finds k in a leaf that is not the root and has no entry to spare
Underflows(k) ==
  /\ root_page_id_ # INVALID_PAGE_ID
  /\ LET leaf == tp[LeafOf(root_page_id_, k)]
     IN /\ k \in KeySet(leaf)
        /\ ~ IsRootPage(leaf)
        /\ GetSize(leaf) - 1 < GetMinSize(leaf)

\* the repair of leaf node (page id) after Remove(k): with the left sibling
\* under the same parent unless node is the leftmost child
Repaired(node, k) ==
  LET parent == tp[node].parent
      idx == ValueIndex(tp[parent], node)
      sib == IF idx = 0 THEN ValueAt(tp[parent], 1) ELSE ValueAt(tp[parent], idx - 1)
      left == IF idx = 0 THEN node ELSE sib
      right == IF idx = 0 THEN sib ELSE node
      rest == KeySet(tp[node]) \ {k}
      moved == IF idx = 0 THEN KeyAt(tp[sib], 0) ELSE KeyAt(tp[sib], GetSize(tp[sib]) - 1)
  IN /\ IF GetSize(tp[sib]) + GetSize(tp[node]) - 1 > tp[sib].max_size
          THEN \* exactly one entry is borrowed
               /\ KeySet(tp'[node]) = rest \cup {moved}
               /\ KeySet(tp'[sib]) = KeySet(tp[sib]) \ {moved}
               /\ GetSize(tp'[node]) = GetSize(tp[node])
               /\ GetSize(tp'[sib]) = GetSize(tp[sib]) - 1
               /\ tp'[parent].ptype = "internal"
               /\ ValueIndex(tp'[parent], right) = ValueIndex(tp[parent], right)
               /\ KeyAt(tp'[parent], ValueIndex(tp[parent], right)) = KeyAt(tp'[right], 0)
               /\ {left, right} \subseteq Leaves'
          ELSE \* the right-hand leaf is merged into the left-hand one
               /\ IsLeafPage(tp'[left])
               /\ KeySet(tp'[left]) = (KeySet(tp[left]) \cup KeySet(tp[right])) \ {k}
               /\ GetSize(tp'[left]) = GetSize(tp[left]) + GetSize(tp[right]) - 1
               /\ tp'[left].next = tp[right].next
               /\ left \in Leaves'
               /\ \A i \in 1 .. Len(LeafChain') : LeafChain'[i] # right
               /\ root_page_id_' # right
               /\ right \notin ChildrenBelow(root_page_id_)'
     /\ TreeKeys' = TreeKeys \ {k}
     /\ \A i \in 1 .. Len(LeafChain') : IsLeafPage(tp'[LeafChain'[i]])
     /\ ChainKeys(LeafChain, 1)' = Ascending(TreeKeys')

\* C32: a Remove that returns and leaves a non-root leaf under its minimum
\* repairs it
\* with the left sibling under the same parent, or with the right one when
\* the leaf is the leftmost child: one entry is borrowed when the two sizes
\* together exceed max_size, else the two leaves are merged; afterwards only
\* the removed key is missing, the leaf chain is sorted and skips a leaf that
\* was merged away, and the parent's separator of the right-hand leaf is that
\* leaf's first key (borrowed) or is gone from the parent (merged).
C32_LeafRepair ==
  [][\A k \in Keys :
       (th'[1].op = "Remove" /\ th'[1].pc = "idle" /\ Underflows(k) /\ Runs("Remove", k, 0))
          => Repaired(LeafOf(root_page_id_, k), k)]_vars

\* Remove(4) has taken 4 from the leaf [4, 5], which borrowed 3 from its
\* left sibling [1, 2, 3]: the root's separator is 3
C32_Witness ==
  /\ th[1].pc = "idle" /\ th[1].op = "Remove" /\ ncalls = 6
  /\ unpin0
  /\ root_page_id_ # INVALID_PAGE_ID
  /\ tp[root_page_id_].ptype = "internal"
  /\ PageKeys(tp[root_page_id_]) = <<0, 3>>
  /\ PageKeys(tp[ValueAt(tp[root_page_id_], 0)]) = <<1, 2>>
  /\ PageKeys(tp[ValueAt(tp[root_page_id_], 1)]) = <<3, 5>>

\* Remove(k) takes k from a child of the root, the root has two children, and
\* what is left of the two does not exceed one leaf: the two are merged
MergesUnderRoot(k) ==
  /\ Underflows(k)
  /\ LET node == LeafOf(root_page_id_, k)
         root == tp[root_page_id_]
     IN /\ tp[node].parent = root_page_id_
        /\ GetSize(root) = 2
        /\ GetSize(tp[ValueAt(root, 0)]) + GetSize(tp[ValueAt(root, 1)]) - 1 <= tp[node].max_size

\* the child left under the old root is the root
ChildIsRoot(old, child) ==
  /\ root_page_id_' = child
  /\ hdr' = [present |-> TRUE, root |-> child]
  /\ IsRootPage(tp'[child])
  /\ tp'[old].ptype = "internal" => tp'[old].items = << <<0, child>> >>

C34_DeletePageSucceeds == ~ delfail

\* the buckets the directory of table t points to
DirBuckets(t) == {t.dir_[i] : i \in 1 .. Len(t.dir_)}

\* the items of the buckets the directory indices in S point to
ItemsAt(t, S) == UNION {{DirBucket(t, i).list_[n] : n \in 1 .. Len(DirBucket(t, i).list_)} : i \in S}

\* one round of the loop of Insert(key, ...) on table t whose bucket for key
\* is full: what the split leaves behind
RoundOK(t, key) ==
  LET idx == IndexOf(t, key)
      d == BucketOf(t, key).depth_
      t2 == HT_Split(t, key)
      old == {i \in DirIndices(t) : t.dir_[i + 1] = t.dir_[idx + 1]}
      split == {i \in DirIndices(t2) : i % Pow2(d) = idx % Pow2(d)}
  IN \* the directory doubles exactly when the local depth is the global depth
     /\ t2.global_depth_ = IF d = t.global_depth_ THEN t.global_depth_ + 1 ELSE t.global_depth_
     /\ Len(t2.dir_) = Pow2(t2.global_depth_)
     \* two buckets of local depth d + 1 stand for the one that overflowed
     /\ Cardinality({t2.dir_[i + 1] : i \in split}) = 2
     /\ \A i \in split : DirBucket(t2, i).depth_ = d + 1
     /\ \A i, j \in split :
          (t2.dir_[i + 1] = t2.dir_[j + 1]) <=> (i % Pow2(d + 1) = j % Pow2(d + 1))
     /\ ItemsAt(t2, split) = ItemsAt(t, old)
     /\ \A i \in split : \A n \in 1 .. Len(DirBucket(t2, i).list_) :
          Hash(DirBucket(t2, i).list_[n][1]) % Pow2(d + 1) = i % Pow2(d + 1)
     \* the other buckets are as they were
     /\ \A i \in DirIndices(t2) \ split : DirBucket(t2, i) = DirBucket(t, i % Len(t.dir_))
     /\ t2.num_buckets_ = t.num_buckets_ + 1
     /\ Cardinality(DirBuckets(t2)) = Cardinality(DirBuckets(t)) + 1
     /\ \A i \in DirIndices(t2) : Len(DirBucket(t2, i).list_) <= t2.bucket_size_

\* every round of the loop of Insert(key, ...) on table t
RECURSIVE RoundsOK(_, _)
RoundsOK(t, key) ==
  IF ~ IsFull(BucketOf(t, key)) THEN TRUE
  ELSE /\ RoundOK(t, key)
       /\ SplitsForEver(BucketOf(t, key), key) \/ RoundsOK(HT_Split(t, key), key)

\* the table after Insert(1, v), Insert(2, v), Insert(3, v)
Insert123(t, v) == HT_Insert(HT_Insert(HT_Insert(t, 1, v), 2, v), 3, v)

\* C35: when a bucket overflows the directory doubles exactly when the
\* bucket's local depth is the global depth; every split leaves two buckets
\* of local depth one more, adds exactly one to the number of buckets, and no
\* bucket ever holds more than bucket_size items; with bucket_size 2 the keys
\* 1, 2, 3 inserted into the new table leave global depth 1, two buckets and
\* the three keys findable.
C35_SplitDiscipline ==
  /\ \A i \in DirIndices(table) : Len(DirBucket(table, i).list_) <= table.bucket_size_
  /\ table.num_buckets_ = Cardinality(DirBuckets(table))
  /\ \A key \in HashKeys : RoundsOK(table, key)
  /\ table = HT_Make(2) =>
       \A v \in HashValues :
         /\ Insert123(table, v).global_depth_ = 1
         /\ Insert123(table, v).num_buckets_ = 2
         /\ ~ Insert123(table, v).looping
         /\ \A k \in 1 .. 3 : HT_Find(Insert123(table, v), k) = [found |-> TRUE, value |-> v]

\* the keys 1, 2, 3 are in a table of bucket size 2 that has split once
C35_Witness ==
  /\ table.bucket_size_ = 2
  /\ table.global_depth_ = 1 /\ table.num_buckets_ = 2
  /\ \A k \in 1 .. 3 : HT_Find(table, k).found
  /\ ~ HT_Find(table, 0).found

\* the keys table t stores
StoredKeys(t) == {k \in HashKeys : HT_Find(t, k).found}

\* of the keys of table t and key, no more than bucket_size share a hash value
FewCollide(t, key) ==
  \A x \in StoredKeys(t) \cup {key} :
    Cardinality({y \in StoredKeys(t) \cup {key} : Hash(y) = Hash(x)}) <= t.bucket_size_

\* Insert(key, ...) on table t goes into another round after a split only
\* when the split has left all items of the bucket with the key
RECURSIVE SplitsWhileColliding(_, _)
SplitsWhileColliding(t, key) ==
  IF ~ IsFull(BucketOf(t, key)) \/ SplitsForEver(BucketOf(t, key), key) THEN TRUE
  ELSE LET t2 == HT_Split(t, key)
       IN /\ IsFull(BucketOf(t2, key)) =>
               /\ BucketOf(t2, key).list_ = BucketOf(t, key).list_
               /\ \A n \in 1 .. Len(BucketOf(t, key).list_) :
                    Hash(BucketOf(t, key).list_[n][1]) % Pow2(BucketOf(t2, key).depth_)
                      = Hash(key) % Pow2(BucketOf(t2, key).depth_)
          /\ SplitsWhileColliding(t2, key)

\* C36: Insert returns after finitely many splits whenever at most
\* bucket_size of the stored keys and the new key share one hash value, and
\* its loop splits again only while all items of the overflowing bucket and
\* the new key still fall into one bucket.
C36_InsertTerminates ==
  [][\A k \in HashKeys, v \in HashValues :
       (Hash_Insert(k, v) /\ FewCollide(table, k))
         => ~ table'.looping /\ SplitsWhileColliding(table, k)]_vars

\* the same for the Insert of a key the table does not store, and of any key
\* when a bucket holds more than one item
InsertOfNewKeyTerminates ==
  [][\A k \in HashKeys, v \in HashValues :
       (Hash_Insert(k, v) /\ FewCollide(table, k)
          /\ (~ HT_Find(table, k).found \/ table.bucket_size_ > 1))
         => ~ table'.looping /\ SplitsWhileColliding(table, k)]_vars

\* the state of the buffer pool but for the disk and what the last call
\* returned
PoolState == <<pages_, page_table_, free_list_, replacer_, next_page_id_>>

\* C37: a NewPage or FetchPage that returns null, no frame being free or
\* evictable, leaves the frames with their pin counts and dirty flags, the
\* page table, the free list, the replacer and the next page id to allocate
\* as they were.
C37_FailedCallChangesNothing ==
  [][((NewPgImp \/ \E p \in Allocated : FetchPgImp(p)) /\ ~ bpm_ret')
       => PoolState' = PoolState]_vars

\* the same for FetchPage, and for NewPage but for the next page id
FailedCallKeepsFrames ==
  [][/\ ((\E p \in Allocated : FetchPgImp(p)) /\ ~ bpm_ret') => PoolState' = PoolState
     /\ (NewPgImp /\ ~ bpm_ret')
          => /\ <<pages_, page_table_, free_list_, replacer_>>'
                  = <<pages_, page_table_, free_list_, replacer_>>
             /\ disk' = disk
             /\ next_page_id_' = next_page_id_ + 1]_vars

\* how often frame f is on the free list
FreeCount(f) == Cardinality({i \in 1 .. Len(free_list_) : free_list_[i] = f})

\* the page ids the page table maps to frame f
EntriesOf(f) == {p \in PageIds : HT_Find(page_table_, p) = [found |-> TRUE, value |-> f]}

\* frame f is on the free list once, holds no page and is unknown to the
\* replacer
FrameFree(f) ==
  /\ FreeCount(f) = 1
  /\ pages_[f].page_id = INVALID_PAGE_ID
  /\ ~ replacer_.data_[f].present
  /\ EntriesOf(f) = {}

\* frame f holds the page of exactly one page-table entry
FrameBound(f) ==
  /\ FreeCount(f) = 0
  /\ EntriesOf(f) = {pages_[f].page_id}

\* C38: every frame is either on the free list, once, holding no page and
\* not tracked by the replacer, or bound to exactly one page-table entry;
\* the replacer's Size() is the number of resident pages with pin_count 0;
\* and no call of the buffer pool made SetEvictable meet an untracked frame
\* or Remove a non-evictable one.
C38_FrameStates ==
  /\ \A f \in Frames : FrameFree(f) # FrameBound(f)
  /\ LRUK_Size(replacer_)
       = Cardinality({f \in Frames : pages_[f].page_id # INVALID_PAGE_ID /\ pages_[f].pin_count = 0})
  /\ ~ replacer_.fault

\* a page was deleted and its frame, the first of the pool, is the free
\* list, while the other frame holds an unpinned page
C38_Witness ==
  /\ free_list_ = <<0>>
  /\ FrameFree(0)
  /\ FrameBound(1) /\ pages_[1].pin_count = 0
  /\ LRUK_Size(replacer_) = 1
====
